---- MODULE Spec2Model ----
(***************************************************************************)
(* Model of the geographic hierarchy import and aggregation engine of      *)
(* redistricting/management/commands/setup.py: import_shape with           *)
(* set_geounit_characteristic (ingestion, over one or several layers, with *)
(* interruption), renest_geolevel with aggregate_unit (renesting), the     *)
(* loop of handle over the geolevels, and the functions get_shape_tree and *)
(* enforce_multi on their own. Further specifications cover one feature of *)
(* any shape (the centroid correction), two workers importing at once, the *)
(* attribute layers of import_shape, and free sequences of import_geolevel *)
(* and renest_geolevel.                                                    *)
(*                                                                         *)
(* Representation.                                                         *)
(*  - A string that the code manipulates (a tree code) is a sequence of    *)
(*    one-character strings.                                               *)
(*  - A geometry is [type, cells, srid]: cells is the set of unit cells of *)
(*    a grid that the geometry covers, numbered row by row (the cell in    *)
(*    column c and row r is the square [2c-2, 2c] x [2r-2, 2r] in doubled  *)
(*    coordinates), type is the GEOS geom_type, srid the spatial reference *)
(*    id. Cells connected through shared edges form one polygon.           *)
(*  - A Decimal with 4 fractional digits is an integer number of 1/10000;  *)
(*    a raw attribute value is an integer number of 1/100000.              *)
(*  - A percentage is an exact fraction [n, d] in lowest terms.            *)
(*  - A database table is a sequence of records; the position of a record  *)
(*    is its primary key.                                                  *)
(***************************************************************************)
EXTENDS Integers, Sequences, FiniteSets, TLC

VARIABLES
    geounits,         \* table Geounit
    characteristics,  \* table Characteristic
    pc,               \* where the running command is
    shapefiles,       \* config['shapefiles']: the layers import_shape reads
    source,           \* import_shape: lyr, the features of the layer being read
    order,            \* iteration order of the dict subject_objects
    run,              \* number of import_shape runs started
    h,                \* import_shape: position of the shapefile loop (1-based)
    idx,              \* import_shape: position of the feature loop (1-based)
    my_geom,          \* import_shape: the local my_geom
    g,                \* import_shape: the local g (primary key of the unit)
    sidx,             \* set_geounit_characteristic: position in subject_objects
    snapshot,         \* the store when the first import_shape run ended
    returned,         \* what the last import_shape call that ended returned
    workers,          \* the import_shape runs of concurrent ingestion workers
    attributes,       \* config['attributes']: the attribute layers, when given
    passes,           \* number of renest_geolevel calls started
    rlevel,           \* renest_geolevel: name of the geolevel being renested
    prevlevel,        \* name of the geolevel of the renest_geolevel call before
    unitq,            \* renest_geolevel: the rows of unitqset, as loaded
    ui,               \* renest_geolevel: position of the unit loop (1-based)
    psub,             \* aggregate_unit: position of the subject loop (1-based)
    geo,              \* aggregate_unit: the local geo
    num,              \* aggregate_unit: the local num
    geomods,          \* renest_geolevel: the local geomods
    nummods,          \* renest_geolevel: the local nummods
    geolevels,        \* handle: the GeoLevel elements of the configuration, in order
    optlevels,        \* handle: the option geolevels
    nestlevels,       \* handle: the option nesting
    hlevel,           \* handle: position of the loop over geolevels (1-based)
    hpc,              \* handle: where the pass of that loop is
    treecall,         \* a call of get_shape_tree: its arguments and its result
    multicall         \* a call of enforce_multi: its argument and its result

importvars == <<shapefiles, source, order, run, h, idx, my_geom, g, sidx, snapshot,
                returned, workers, attributes>>

renestvars == <<passes, rlevel, prevlevel, unitq, ui, psub, geo, num, geomods, nummods>>

handlevars == <<geolevels, optlevels, nestlevels, hlevel, hpc>>

callvars == <<treecall, multicall>>

vars == <<geounits, characteristics, pc, importvars, renestvars, handlevars, callvars>>

\* ------------------------------------------------------------------ bounds

\* Longest layer (number of features) an ingestion run reads.
MaxFeatures == 2

\* Number of import_shape runs over the same source.
MaxRuns == 2

\* Number of renest_geolevel calls made one after another.
MaxPasses == 2

\* Largest declared position of a tree field.
MaxPos == 2

\* Largest declared width of a tree field.
MaxWidth == 2

\* Number of import_geolevel calls in a sequence of calls.
MaxImports == 3

\* Number of columns and of rows of the grid of cells.
GridWidth == 4

GridHeight == 3

\* ----------------------------------------------------------------- helpers

None == "None"

\* The value of a local geometry variable that was never assigned.
Unbound == [type |-> "unbound", cells |-> {}, srid |-> 0]

Abs(x) == IF x < 0 THEN -x ELSE x

RECURSIVE GCD(_, _)
GCD(a, b) == IF b = 0 THEN a ELSE GCD(b, a % b)

\* Decimal division n / d (d > 0), kept exact.
Ratio(n, d) ==
    LET k == GCD(Abs(n), d)
    IN  [n |-> n \div k, d |-> d \div k]

Min(S) == CHOOSE x \in S : \A y \in S : x <= y

Max(S) == CHOOSE x \in S : \A y \in S : x >= y

\* -------------------------------------------------------------- geometry

MultiPolygon(geom) == [type |-> "MultiPolygon", cells |-> geom.cells, srid |-> geom.srid]

\* GEOSGeometry.simplify(tolerance, preserve_topology=True): detail finer than
\* the tolerance is lost: the result covers every block of `tolerance` cells
\* that the geometry touches.
Simplify(geom, tolerance) ==
    [type  |-> geom.type,
     cells |-> {c \in 1..(((Max(geom.cells \cup {1}) - 1) \div tolerance) + 1) * tolerance :
                  \E k \in geom.cells : (k - 1) \div tolerance = (c - 1) \div tolerance},
     srid  |-> geom.srid]

\* Column and row of a cell on the grid (cells are numbered row by row).
Col(k) == ((k - 1) % GridWidth) + 1

Row(k) == ((k - 1) \div GridWidth) + 1

\* Two cells share an edge.
Adjacent(j, k) ==
    \/ Row(j) = Row(k) /\ Abs(Col(j) - Col(k)) = 1
    \/ Col(j) = Col(k) /\ Abs(Row(j) - Row(k)) = 1

\* The cells of `cells` connected to the cells of part through shared edges.
RECURSIVE Component(_, _)
Component(cells, part) ==
    LET more == part \cup {k \in cells : \E j \in part : Adjacent(j, k)}
    IN  IF more = part THEN part ELSE Component(cells, more)

\* The first polygon of a multipolygon, my_geom[0]: the connected part that
\* holds the lowest cell.
FirstPoly(geom) ==
    [type  |-> "Polygon",
     cells |-> Component(geom.cells, {Min(geom.cells)}),
     srid  |-> geom.srid]

RECURSIVE SumCols(_)
SumCols(cells) ==
    IF cells = {} THEN 0
    ELSE LET k == CHOOSE c \in cells : TRUE IN (2 * Col(k) - 1) + SumCols(cells \ {k})

RECURSIVE SumRows(_)
SumRows(cells) ==
    IF cells = {} THEN 0
    ELSE LET k == CHOOSE c \in cells : TRUE IN (2 * Row(k) - 1) + SumRows(cells \ {k})

\* GEOSGeometry.centroid, in doubled coordinates: the cell in column c and
\* row r is the square [2c-2, 2c] x [2r-2, 2r], with its middle at
\* (2c-1, 2r-1).
Centroid(geom) ==
    [x |-> Ratio(SumCols(geom.cells), Cardinality(geom.cells)),
     y |-> Ratio(SumRows(geom.cells), Cardinality(geom.cells))]

\* The columns (or rows) c whose closed interval [2c-2, 2c] holds the
\* coordinate v; 0 and last + 1 stand for what lies beyond the grid.
Touched(v, last) ==
    {c \in 0..(last + 1) : (2 * c - 2) * v.d <= v.n /\ v.n <= (2 * c) * v.d}

\* center.within(geom): the point lies in the interior of the geometry, so
\* every square that holds the point is a cell of the geometry.
Within(center, geom) ==
    \A c \in Touched(center.x, GridWidth), r \in Touched(center.y, GridHeight) :
        /\ c \in 1..GridWidth
        /\ r \in 1..GridHeight
        /\ ((r - 1) * GridWidth + c) \in geom.cells

\* centerline.intersection(first_poly): the pieces that the horizontal line
\* at height my_y has in common with the polygon, as pairs of a first and a
\* last column. The overlay cuts the line where it meets a vertex of the
\* polygon, that is where the rows the polygon covers beside the line change,
\* and gives one line for each piece.
CenterlinePieces(first_poly, my_y) ==
    LET rows    == Touched(my_y, GridHeight) \cap (1..GridHeight)
        Kind(c) == {r \in rows : ((r - 1) * GridWidth + c) \in first_poly.cells}
        Same(lo, hi) == \A c \in lo..hi : Kind(c) = Kind(lo)
    IN  { p \in (1..GridWidth) \X (1..GridWidth) :
            /\ p[1] <= p[2]
            /\ Kind(p[1]) # {}
            /\ Same(p[1], p[2])
            /\ p[1] > 1 => Kind(p[1] - 1) # Kind(p[1])
            /\ p[2] < GridWidth => Kind(p[2] + 1) # Kind(p[1]) }

\* The centroids import_shape may store: the centroid, or when that does not
\* lie within the geometry the middle of the intersection of the first
\* polygon with the horizontal line through its centroid. Of an intersection
\* of several lines the first one is taken; the order in which the overlay
\* lists them is not fixed, so each of them may be the first.
CorrectedCentroids(geom) ==
    IF Within(Centroid(geom), geom)
    THEN {Centroid(geom)}
    ELSE LET first_poly == FirstPoly(geom)
             my_y == Centroid(first_poly).y
         IN  { [x |-> Ratio((2 * intersection[1] - 2) + 2 * intersection[2], 2),
                y |-> my_y] :
               intersection \in CenterlinePieces(first_poly, my_y) }

\* ------------------------------------------------------------ configuration

\* The Fields of the Shapefile element of the imported geolevel.
ShapeFields ==
    << [name |-> "NAME",  type |-> "name",     pos |-> -1, width |-> 0],
       [name |-> "ID",    type |-> "portable", pos |-> -1, width |-> 0],
       [name |-> "TRACT", type |-> "tree",     pos |-> 0,  width |-> 2] >>

\* The rows of table Subject.
Subjects ==
    << [name |-> "total", percentage_denominator |-> None],
       [name |-> "white", percentage_denominator |-> "total"] >>

SubjectNamed(name) == CHOOSE s \in {Subjects[i] : i \in 1..Len(Subjects)} : s.name = name

\* gconfig of import_geolevel: the dictionary handed to import_shape.
Config ==
    [geolevel   |-> "tract",
     tolerance  |-> 2,
     subject_fields |-> << [id |-> "total", field |-> "TOTAL"],
                           [id |-> "white", field |-> "WHITE"] >>]

\* subject_objects[attr_name] = sub
SubjectOf(attr) ==
    LET sc == CHOOSE c \in {Config.subject_fields[i] : i \in 1..Len(Config.subject_fields)} :
                  c.field = attr
    IN  SubjectNamed(sc.id)

\* subject_objects['%s_by_id' % sub.name] = attr_name
FieldById(subname) ==
    LET sc == CHOOSE c \in {Config.subject_fields[i] : i \in 1..Len(Config.subject_fields)} :
                  c.id = subname
    IN  sc.field

\* The keys of subject_objects that name an attribute (the keys ending in
\* _by_id are skipped by set_geounit_characteristic).
AttrKeys == {Config.subject_fields[i].field : i \in 1..Len(Config.subject_fields)}

\* The orders in which iteritems() may deliver the attribute keys.
KeyOrders ==
    {o \in [1..Cardinality(AttrKeys) -> AttrKeys] : \A a \in AttrKeys : \E i \in DOMAIN o : o[i] = a}

\* ------------------------------------------------------------------ inputs

\* A raw attribute text that Decimal() parses, as a number of 1/100000.
Num(v) == [parsable |-> TRUE, value |-> v]

\* A raw attribute text that Decimal() does not parse.
NotANumber == [parsable |-> FALSE, value |-> 0]

\* Values of the tree field: "1 ", "01" (both give tree code 01) and "2".
TreeRaw == { <<"1", " ">>, <<"0", "1">>, <<"2">> }

\* Geometries of features after buffer(0): a polygon, a multipolygon of two
\* parts, an empty polygon, and an empty result that is no polygon type.
FeatureGeoms ==
    { [type |-> "Polygon",            cells |-> {1, 2}, srid |-> 4326],
      [type |-> "MultiPolygon",       cells |-> {1, 3}, srid |-> 4326],
      [type |-> "Polygon",            cells |-> {},     srid |-> 4326],
      [type |-> "GeometryCollection", cells |-> {},     srid |-> 4326] }

\* Attribute rows: values whose fifth fractional digit is 6 or 5, a negative
\* value, a zero denominator, and texts that are no number.
AttrRows ==
    { [WHITE |-> Num(16),    TOTAL |-> Num(25)],
      [WHITE |-> Num(-16),   TOTAL |-> Num(0)],
      [WHITE |-> Num(20),    TOTAL |-> Num(6)],
      [WHITE |-> NotANumber, TOTAL |-> Num(30)] }

Features ==
    { [NAME |-> "A", ID |-> "p", TRACT |-> t, geom |-> gm, WHITE |-> a.WHITE, TOTAL |-> a.TOTAL] :
        t \in TreeRaw, gm \in FeatureGeoms, a \in AttrRows }

Sources == UNION { [1..n -> Features] : n \in 1..MaxFeatures }

\* ----------------------------------------------------- identity of a feature

\* str.strip(' ')
RECURSIVE Strip(_)
Strip(s) ==
    IF s = <<>> THEN s
    ELSE IF Head(s) = " " THEN Strip(Tail(s))
    ELSE IF s[Len(s)] = " " THEN Strip(SubSeq(s, 1, Len(s) - 1))
    ELSE s

\* str.zfill(width)
RECURSIVE ZFill(_, _)
ZFill(s, width) == IF Len(s) >= width THEN s ELSE ZFill(<<"0">> \o s, width)

\* The first Field of type tree whose pos is p, or None.
TreeFieldAt(shapefile, p) ==
    LET hits == {i \in 1..Len(shapefile) : shapefile[i].type = "tree" /\ shapefile[i].pos = p}
    IN  IF hits = {} THEN None ELSE shapefile[Min(hits)].name

RECURSIVE BuildTree(_, _, _, _)
BuildTree(shapefile, feature, p, builtid) ==
    IF p >= Len(shapefile) THEN builtid
    ELSE LET fname == TreeFieldAt(shapefile, p)
         IN  IF fname = None
             THEN BuildTree(shapefile, feature, p + 1, builtid)
             ELSE LET width == (CHOOSE f \in {shapefile[i] : i \in 1..Len(shapefile)} :
                                    f.name = fname).width
                      part  == Strip(feature[fname])
                  IN  BuildTree(shapefile, feature, p + 1, builtid \o ZFill(part, width))

get_shape_tree(shapefile, feature) == BuildTree(shapefile, feature, 0, <<>>)

get_shape_portable(shapefile, feature) ==
    feature[shapefile[Min({i \in 1..Len(shapefile) : shapefile[i].type = "portable"})].name]

get_shape_name(shapefile, feature) ==
    feature[shapefile[Min({i \in 1..Len(shapefile) : shapefile[i].type = "name"})].name]

\* ------------------------------------------------------------- import_shape

\* config['attributes'] is None: the geolevel is configured with Shapefile
\* elements, which carry the attributes of the features.
NoAttributes == [given |-> FALSE, layers |-> <<>>]

\* No import_shape call has ended yet.
NotReturned == [value |-> "unset"]

\* import_shape has no return statement: a call that ends returns None.
ReturnsNone == [value |-> "None"]

\* A probe that compares the stored tree code with the raw field value.
PrefetchRawTree(units, level, feat) ==
    {i \in 1..Len(units) :
        /\ units[i].name = get_shape_name(ShapeFields, feat)
        /\ units[i].geolevel = level
        /\ units[i].portable_id = get_shape_portable(ShapeFields, feat)
        /\ units[i].tree_code = feat.TRACT}

\* prefetch: the stored units with the identity key of the feature.
Prefetch(units, level, feat) ==
    {i \in 1..Len(units) :
        /\ units[i].name = get_shape_name(ShapeFields, feat)
        /\ units[i].geolevel = level
        /\ units[i].portable_id = get_shape_portable(ShapeFields, feat)
        /\ units[i].tree_code = get_shape_tree(ShapeFields, feat)}

\* my_geom after the coercion of the repaired geometry: assigned for a
\* MultiPolygon or a Polygon, left as it was for any other type.
CoerceMyGeom(geos, old) ==
    IF geos.type = "MultiPolygon" THEN geos
    ELSE IF geos.type = "Polygon" THEN MultiPolygon(geos)
    ELSE old

\* Whether the try block raises after the coercion: my_geom unbound
\* (NameError), or an empty geometry, which has no first polygon extent to
\* take the corrected centroid from.
GeometryRaises(mg) == mg = Unbound \/ mg.cells = {}

\* simple: the simplification of my_geom, wrapped when it is no MultiPolygon.
SimpleOf(mg, tolerance) ==
    LET simple == Simplify(mg, tolerance)
    IN  IF simple.type # "MultiPolygon" THEN MultiPolygon(simple) ELSE simple

\* The Geounit that import_shape saves for a new feature.
NewGeounit(feat, mg, center) ==
    [name        |-> get_shape_name(ShapeFields, feat),
     portable_id |-> get_shape_portable(ShapeFields, feat),
     tree_code   |-> get_shape_tree(ShapeFields, feat),
     geolevel    |-> Config.geolevel,
     geom        |-> mg,
     simple      |-> SimpleOf(mg, Config.tolerance),
     center      |-> center,
     child       |-> 0]

\* A run of import_shape starts; the store it finds is remembered when it is
\* the second run.
StartImport ==
    /\ pc \in {"idle", "raised", "killed"}
    /\ run < MaxRuns
    /\ run' = run + 1
    /\ pc' = "feature"
    /\ h' = 1
    /\ source' = shapefiles[1]
    /\ idx' = 1
    /\ my_geom' = Unbound
    /\ g' = 0
    /\ sidx' = 1
    /\ snapshot' = IF run = 1
                   THEN [geounits |-> geounits, characteristics |-> characteristics]
                   ELSE snapshot
    /\ UNCHANGED <<geounits, characteristics, shapefiles, order, returned, workers,
                   attributes, renestvars, handlevars, callvars>>

\* A pass of the feature loop without the except clause: an exception of
\* the try block leaves import_shape.
ImportFeatureNoExcept ==
    /\ pc = "feature"
    /\ idx <= Len(source)
    /\ LET feat     == source[idx]
           prefetch == Prefetch(geounits, Config.geolevel, feat)
           mg       == CoerceMyGeom(feat.geom, my_geom)
           withattr == ~attributes.given
       IN  IF prefetch = {}
           THEN /\ my_geom' = mg
                /\ IF GeometryRaises(mg)
                   THEN /\ pc' = "raised"
                        /\ UNCHANGED <<geounits, g, idx, sidx>>
                   ELSE /\ \E center \in CorrectedCentroids(mg) :
                               geounits' = Append(geounits, NewGeounit(feat, mg, center))
                        /\ g' = Len(geounits) + 1
                        /\ pc' = IF withattr THEN "chars" ELSE "feature"
                        /\ idx' = IF withattr THEN idx ELSE idx + 1
                        /\ sidx' = 1
           ELSE /\ g' = Min(prefetch)
                /\ pc' = IF withattr THEN "chars" ELSE "feature"
                /\ idx' = IF withattr THEN idx ELSE idx + 1
                /\ sidx' = 1
                /\ UNCHANGED <<geounits, my_geom>>
    /\ UNCHANGED <<characteristics, shapefiles, source, order, run, h, snapshot,
                   returned, workers, attributes,
                   renestvars, handlevars, callvars>>

\* A pass of the feature loop that stores the geometry of the feature in the
\* unit that the probe found.
ImportFeatureRefreshesFound ==
    /\ pc = "feature"
    /\ idx <= Len(source)
    /\ LET feat     == source[idx]
           prefetch == Prefetch(geounits, Config.geolevel, feat)
           mg       == CoerceMyGeom(feat.geom, my_geom)
           withattr == ~attributes.given
       IN  /\ my_geom' = mg
           /\ IF GeometryRaises(mg)
              THEN /\ idx' = idx + 1
                   /\ UNCHANGED <<geounits, g, pc, sidx>>
              ELSE /\ \E center \in CorrectedCentroids(mg) :
                          geounits' = IF prefetch = {}
                                      THEN Append(geounits, NewGeounit(feat, mg, center))
                                      ELSE [geounits EXCEPT ![Min(prefetch)] =
                                               NewGeounit(feat, mg, center)]
                   /\ g' = IF prefetch = {} THEN Len(geounits) + 1 ELSE Min(prefetch)
                   /\ pc' = IF withattr THEN "chars" ELSE "feature"
                   /\ idx' = IF withattr THEN idx ELSE idx + 1
                   /\ sidx' = 1
    /\ UNCHANGED <<characteristics, shapefiles, source, order, run, h, snapshot,
                   returned, workers, attributes,
                   renestvars, handlevars, callvars>>

\* One pass of the feature loop up to the call of set_geounit_characteristic:
\* probe by identity key, and for an unknown key normalise the geometry and
\* save a new Geounit, or skip the feature when that raises.
ImportFeature ==
    /\ pc = "feature"
    /\ idx <= Len(source)
    /\ LET feat     == source[idx]
           prefetch == Prefetch(geounits, Config.geolevel, feat)
           mg       == CoerceMyGeom(feat.geom, my_geom)
           withattr == ~attributes.given
       IN  IF prefetch = {}
           THEN /\ my_geom' = mg
                /\ IF GeometryRaises(mg)
                   THEN /\ idx' = idx + 1
                        /\ UNCHANGED <<geounits, g, pc, sidx>>
                   ELSE /\ \E center \in CorrectedCentroids(mg) :
                               geounits' = Append(geounits, NewGeounit(feat, mg, center))
                        /\ g' = Len(geounits) + 1
                        /\ pc' = IF withattr THEN "chars" ELSE "feature"
                        /\ idx' = IF withattr THEN idx ELSE idx + 1
                        /\ sidx' = 1
           ELSE /\ g' = Min(prefetch)
                /\ pc' = IF withattr THEN "chars" ELSE "feature"
                /\ idx' = IF withattr THEN idx ELSE idx + 1
                /\ sidx' = 1
                /\ UNCHANGED <<geounits, my_geom>>
    /\ UNCHANGED <<characteristics, shapefiles, source, order, run, h, snapshot,
                   returned, workers, attributes,
                   renestvars, handlevars, callvars>>

\* ----------------------------------------------- set_geounit_characteristic

\* Decimal(text).quantize(Decimal('000000.0000', 'ROUND_DOWN')): the second
\* argument of Decimal() is its context, not a rounding mode, so quantize
\* rounds with the rounding of the default context, ROUND_HALF_EVEN.
Quantize(raw) ==
    LET q   == Abs(raw) \div 10
        r   == Abs(raw) % 10
        mag == IF r > 5 \/ (r = 5 /\ q % 2 = 1) THEN q + 1 ELSE q
    IN  IF raw < 0 THEN -mag ELSE mag

\* The percentage field as stored: '0000.00000000'.
ZeroPercentage == Ratio(0, 1)

\* Whether the body of the loop raises for attribute attr: Decimal() of the
\* attribute, or of the denominator's attribute, is given a text that is no
\* number (decimal.InvalidOperation, outside the try).
CharacteristicRaises(feat, attr) ==
    LET obj == SubjectOf(attr)
    IN  \/ ~feat[attr].parsable
        \/ /\ obj.percentage_denominator # None
           /\ ~feat[FieldById(obj.percentage_denominator)].parsable

\* percentage of the loop body for attribute attr.
PercentageOf(feat, attr) ==
    LET obj   == SubjectOf(attr)
        value == Quantize(feat[attr].value)
    IN  IF obj.percentage_denominator # None
        THEN LET denominator_field == FieldById(obj.percentage_denominator)
                 denominator_value == Quantize(feat[denominator_field].value)
             IN  IF denominator_value > 0
                 THEN Ratio(value, denominator_value)
                 ELSE ZeroPercentage
        ELSE ZeroPercentage

\* A save that inserts a record without looking for a stored one.
UpsertAlwaysInserts(chars, unit, subject, number, percentage) ==
    Append(chars, [geounit |-> unit, subject |-> subject,
                   number |-> number, percentage |-> percentage])

\* The Characteristic table after c.save(): the first record of (subject,
\* geounit) is updated when there is one, else a record is inserted.
Upsert(chars, unit, subject, number, percentage) ==
    LET query == {i \in 1..Len(chars) : chars[i].subject = subject /\ chars[i].geounit = unit}
    IN  IF query # {}
        THEN [chars EXCEPT ![Min(query)] =
                 [@ EXCEPT !.number = number, !.percentage = percentage]]
        ELSE Append(chars, [geounit |-> unit, subject |-> subject,
                            number |-> number, percentage |-> percentage])

\* One pass of the loop of set_geounit_characteristic over subject_objects,
\* for the feature of the running pass of import_shape: it saves one
\* Characteristic, or raises out of import_shape.
SetCharacteristic ==
    /\ pc = "chars"
    /\ LET feat == source[idx]
           attr == order[sidx]
           obj  == SubjectOf(attr)
       IN  IF CharacteristicRaises(feat, attr)
           THEN /\ pc' = "raised"
                /\ UNCHANGED <<characteristics, idx, sidx>>
           ELSE /\ characteristics' =
                       Upsert(characteristics, g, obj.name,
                              Quantize(feat[attr].value), PercentageOf(feat, attr))
                /\ IF sidx < Len(order)
                   THEN /\ sidx' = sidx + 1
                        /\ UNCHANGED <<pc, idx>>
                   ELSE /\ sidx' = 1
                        /\ pc' = "feature"
                        /\ idx' = idx + 1
    /\ UNCHANGED <<geounits, shapefiles, source, order, run, h, my_geom, g, snapshot,
                   returned, workers, attributes,
                   renestvars, handlevars, callvars>>

\* The feature loop of a shapefile is exhausted and another shapefile
\* follows: its layer is opened.
NextShapefile ==
    /\ pc = "feature"
    /\ idx > Len(source)
    /\ h < Len(shapefiles)
    /\ h' = h + 1
    /\ source' = shapefiles[h + 1]
    /\ idx' = 1
    /\ UNCHANGED <<geounits, characteristics, pc, shapefiles, order, run, my_geom, g,
                   sidx, snapshot, returned, workers, attributes, renestvars,
                   handlevars, callvars>>

\* The feature loop of the last shapefile is exhausted: import_shape returns.
FinishImport ==
    /\ pc = "feature"
    /\ idx > Len(source)
    /\ h >= Len(shapefiles)
    /\ ~attributes.given
    /\ pc' = "idle"
    /\ returned' = ReturnsNone
    /\ UNCHANGED <<geounits, characteristics, shapefiles, source, order, run, h, idx,
                   my_geom, g, sidx, snapshot, workers, attributes, renestvars,
                   handlevars, callvars>>

\* The feature loop of the last shapefile is exhausted and attribute layers
\* are configured: the loop over them starts, with the first layer if there
\* is one.
StartAttributes ==
    /\ pc = "feature"
    /\ idx > Len(source)
    /\ h >= Len(shapefiles)
    /\ attributes.given
    /\ pc' = "attrs"
    /\ h' = 1
    /\ source' = IF attributes.layers = <<>> THEN <<>> ELSE attributes.layers[1]
    /\ idx' = 1
    /\ UNCHANGED <<geounits, characteristics, shapefiles, order, run, my_geom, g, sidx,
                   snapshot, returned, workers, attributes, renestvars, handlevars,
                   callvars>>

\* One pass of the feature loop of an attribute layer: the pass calls
\* get_shape_treeid, a name that import_shape and the module do not define
\* (the functions of import_shape are get_shape_tree, get_shape_portable and
\* get_shape_name), so NameError leaves import_shape before a unit is looked
\* up.
AttributeFeature ==
    /\ pc = "attrs"
    /\ idx <= Len(source)
    /\ pc' = "raised"
    /\ UNCHANGED <<geounits, characteristics, importvars, renestvars, handlevars,
                   callvars>>

\* An attribute layer is exhausted and another one follows.
NextAttributeLayer ==
    /\ pc = "attrs"
    /\ idx > Len(source)
    /\ h < Len(attributes.layers)
    /\ h' = h + 1
    /\ source' = attributes.layers[h + 1]
    /\ idx' = 1
    /\ UNCHANGED <<geounits, characteristics, pc, shapefiles, order, run, my_geom, g,
                   sidx, snapshot, returned, workers, attributes, renestvars,
                   handlevars, callvars>>

\* The last attribute layer is exhausted: import_shape returns.
FinishAttributes ==
    /\ pc = "attrs"
    /\ idx > Len(source)
    /\ h >= Len(attributes.layers)
    /\ pc' = "idle"
    /\ returned' = ReturnsNone
    /\ UNCHANGED <<geounits, characteristics, shapefiles, source, order, run, h, idx,
                   my_geom, g, sidx, snapshot, workers, attributes, renestvars,
                   handlevars, callvars>>

\* The process that runs import_shape is stopped between two writes to the
\* store: between two features, or between the save of a Geounit and the
\* save of one of its Characteristics.
Interrupt ==
    /\ pc \in {"feature", "chars"}
    /\ pc' = "killed"
    /\ UNCHANGED <<geounits, characteristics, importvars, renestvars, handlevars,
                   callvars>>

\* ---------------------------------------------------------- renest_geolevel

\* The rows of table Geolevel.
Geolevels ==
    << [name |-> "county", tolerance |-> 2],
       [name |-> "tract",  tolerance |-> 2],
       [name |-> "block",  tolerance |-> 2] >>

GeolevelNamed(name) == CHOOSE l \in {Geolevels[i] : i \in 1..Len(Geolevels)} : l.name = name

\* The rows of table LegislativeLevel, in the order of their primary keys;
\* parent is the primary key of another row of the same legislative body, or
\* 0. Body A nests blocks in counties, body B blocks in tracts in counties,
\* body C has counties only.
LegislativeLevels ==
    << [legislative_body |-> "A", geolevel |-> "block",  parent |-> 0],
       [legislative_body |-> "A", geolevel |-> "county", parent |-> 1],
       [legislative_body |-> "B", geolevel |-> "block",  parent |-> 0],
       [legislative_body |-> "B", geolevel |-> "tract",  parent |-> 3],
       [legislative_body |-> "B", geolevel |-> "county", parent |-> 4],
       [legislative_body |-> "C", geolevel |-> "county", parent |-> 0] >>

\* The parent of the first LegislativeLevel of the geolevel that has one.
FirstParent(level) ==
    LET withparent == {i \in 1..Len(LegislativeLevels) :
                          /\ LegislativeLevels[i].geolevel = level
                          /\ LegislativeLevels[i].parent # 0}
    IN  IF withparent = {} THEN 0 ELSE LegislativeLevels[Min(withparent)].parent

\* parent of renest_geolevel: the parent of the last LegislativeLevel of the
\* geolevel that has one, or 0.
LastParent(level) ==
    LET withparent == {i \in 1..Len(LegislativeLevels) :
                          /\ LegislativeLevels[i].geolevel = level
                          /\ LegislativeLevels[i].parent # 0}
    IN  IF withparent = {} THEN 0 ELSE LegislativeLevels[Max(withparent)].parent

\* tree_code__startswith
StartsWith(code, prefix) ==
    /\ Len(code) >= Len(prefix)
    /\ SubSeq(code, 1, Len(prefix)) = prefix

\* A filter on the tree code alone.
ParentUnitsAnyLevel(units, geounit, parent) ==
    {i \in 1..Len(units) : StartsWith(units[i].tree_code, geounit.tree_code)}

\* parentunits: the units of geolevel parent.geolevel whose tree code starts
\* with the tree code of geounit.
ParentUnits(units, geounit, parent) ==
    {i \in 1..Len(units) :
        /\ StartsWith(units[i].tree_code, geounit.tree_code)
        /\ units[i].geolevel = LegislativeLevels[parent].geolevel}

\* The value of a geometry expression that is None.
NoGeom == [type |-> "None", cells |-> {}, srid |-> 0]

\* The truth value of a geometry object: None and an empty collection are
\* false.
Truthy(geom) ==
    /\ geom # NoGeom
    /\ ~(geom.type \in {"MultiPolygon", "GeometryCollection"} /\ geom.cells = {})

empty_geom(srid) == [type |-> "GeometryCollection", cells |-> {}, srid |-> srid]

\* A coercion that wraps every geometry that is no MultiPolygon.
EnforceMultiWrapsAny(geom) ==
    IF Truthy(geom)
    THEN IF geom.type = "MultiPolygon" THEN geom ELSE MultiPolygon(geom)
    ELSE geom

enforce_multi(geom) ==
    IF Truthy(geom)
    THEN IF geom.type = "MultiPolygon" THEN geom
         ELSE IF geom.type = "Polygon" THEN MultiPolygon(geom)
         ELSE empty_geom(geom.srid)
    ELSE geom

\* A union that is an empty collection, not None, for no rows.
UnionAggNeverNone(units, rows) ==
    LET cells == UNION {units[i].geom.cells : i \in rows}
    IN  [type  |-> IF cells # {} /\ cells = Min(cells)..Max(cells)
                   THEN "Polygon" ELSE "MultiPolygon",
         cells |-> cells,
         srid  |-> IF rows = {} THEN 0 ELSE units[Min(rows)].geom.srid]

\* parentunits.unionagg(): None for no rows, else the union, a Polygon when
\* it is one run of adjacent cells.
UnionAgg(units, rows) ==
    IF rows = {} THEN NoGeom
    ELSE LET cells == UNION {units[i].geom.cells : i \in rows}
         IN  [type  |-> IF cells # {} /\ cells = Min(cells)..Max(cells)
                        THEN "Polygon" ELSE "MultiPolygon",
              cells |-> cells,
              srid  |-> units[Min(rows)].geom.srid]

\* The area of the symmetric difference of the two geometries.
SymmetricDifferenceArea(newgeo, geom) ==
    Cardinality((newgeo.cells \ geom.cells) \cup (geom.cells \ newgeo.cells))

\* newgeo.difference(geounit.geom).area
DifferenceArea(newgeo, geom) == Cardinality(newgeo.cells \ geom.cells)

\* A save that writes the geometry and leaves the simplified geometry.
SaveGeometryOnly(units, geounit, newgeo, tolerance) ==
    [units EXCEPT ![geounit.id] =
        [name        |-> geounit.name,
         portable_id |-> geounit.portable_id,
         tree_code   |-> geounit.tree_code,
         geolevel    |-> geounit.geolevel,
         geom        |-> enforce_multi(newgeo),
         simple      |-> geounit.simple,
         center      |-> geounit.center,
         child       |-> geounit.child]]

\* The Geounit table after geounit.save() with the new geometry and its
\* simplification assigned: one write of the whole loaded record.
SaveGeometry(units, geounit, newgeo, tolerance) ==
    [units EXCEPT ![geounit.id] =
        [name        |-> geounit.name,
         portable_id |-> geounit.portable_id,
         tree_code   |-> geounit.tree_code,
         geolevel    |-> geounit.geolevel,
         geom        |-> enforce_multi(newgeo),
         simple      |-> enforce_multi(Simplify(newgeo, tolerance)),
         center      |-> geounit.center,
         child       |-> geounit.child]]

RECURSIVE SumNumbers(_, _)
SumNumbers(chars, rows) ==
    IF rows = {} THEN 0
    ELSE LET i == Min(rows) IN chars[i].number + SumNumbers(chars, rows \ {i})

\* A sum that stops after the first row.
AggDataFirstRow(chars, parentunits, subject) ==
    LET qset == {i \in 1..Len(chars) :
                    chars[i].geounit \in parentunits /\ chars[i].subject = subject}
    IN  [none |-> qset = {}, sum |-> IF qset = {} THEN 0 ELSE chars[Min(qset)].number]

\* qset.aggregate(Sum('number'))['number__sum'] over the Characteristics of
\* the parent units for a subject: None for no rows.
AggData(chars, parentunits, subject) ==
    LET qset == {i \in 1..Len(chars) :
                    chars[i].geounit \in parentunits /\ chars[i].subject = subject}
    IN  [none |-> qset = {}, sum |-> SumNumbers(chars, qset)]

\* percentage of aggregate_unit. dset is built and not used: the
\* denominator is aggregated over qset, the rows of the subject itself.
AggPercentage(chars, parentunits, subject) ==
    LET aggdata == AggData(chars, parentunits, subject.name)
    IN  IF ~aggdata.none /\ aggdata.sum # 0 /\ subject.percentage_denominator # None
        THEN LET denominator_data == AggData(chars, parentunits, subject.name)
             IN  IF denominator_data.sum > 0
                 THEN Ratio(aggdata.sum, denominator_data.sum)
                 ELSE ZeroPercentage
        ELSE ZeroPercentage

\* The rows of unitqset as the loop loads them: each with its primary key.
LoadUnits(units, level) ==
    LET ids == {i \in 1..Len(units) : units[i].geolevel = level}
        RECURSIVE Load(_)
        Load(rest) ==
            IF rest = {} THEN <<>>
            ELSE LET i == Min(rest)
                 IN  <<[id          |-> i,
                        name        |-> units[i].name,
                        portable_id |-> units[i].portable_id,
                        tree_code   |-> units[i].tree_code,
                        geolevel    |-> units[i].geolevel,
                        geom        |-> units[i].geom,
                        simple      |-> units[i].simple,
                        center      |-> units[i].center,
                        child       |-> units[i].child]>> \o Load(rest \ {i})
    IN  Load(ids)

\* The start of renest_geolevel for the geolevel named level: it resolves
\* the parent and, when there is one, starts the loop over the units of the
\* geolevel.
StartRenest(level) ==
    /\ rlevel' = level
    /\ prevlevel' = rlevel
    /\ IF LastParent(level) # 0
       THEN /\ pc' = "nest_mark"
            /\ unitq' = LoadUnits(geounits, level)
       ELSE /\ pc' = "idle"
            /\ unitq' = <<>>
    /\ passes' = passes + 1
    /\ ui' = 1
    /\ psub' = 1
    /\ geo' = 0
    /\ num' = 0
    /\ geomods' = 0
    /\ nummods' = 0
    /\ UNCHANGED <<geounits, characteristics, importvars, callvars>>

\* renest_geolevel is called for a geolevel.
RenestGeolevel ==
    /\ pc = "idle"
    /\ passes < MaxPasses
    /\ \E l \in 1..Len(Geolevels) : StartRenest(Geolevels[l].name)
    /\ UNCHANGED handlevars

\* aggregate_unit, first write: parentunits.update(child=geounit).
AggregateMark ==
    /\ pc = "nest_mark"
    /\ ui <= Len(unitq)
    /\ LET geounit     == unitq[ui]
           parentunits == ParentUnits(geounits, geounit, LastParent(rlevel))
       IN  geounits' = [i \in 1..Len(geounits) |->
                           IF i \in parentunits
                           THEN [geounits[i] EXCEPT !.child = geounit.id]
                           ELSE geounits[i]]
    /\ pc' = "nest_geom"
    /\ geo' = 0
    /\ num' = 0
    /\ UNCHANGED <<characteristics, importvars, passes, rlevel, prevlevel, unitq, ui, psub,
                   geomods, nummods, handlevars, callvars>>

\* aggregate_unit, geometric step: union of the parent units; return (0, 0)
\* when there is none, save the union and its simplification when some of
\* its area lies outside the stored geometry.
AggregateGeometry ==
    /\ pc = "nest_geom"
    /\ LET geounit     == unitq[ui]
           geolevel    == GeolevelNamed(rlevel)
           parentunits == ParentUnits(geounits, geounit, LastParent(rlevel))
           newgeo      == UnionAgg(geounits, parentunits)
       IN  IF newgeo = NoGeom
           THEN /\ pc' = "nest_mark"
                /\ ui' = ui + 1
                /\ UNCHANGED <<geounits, geo, psub>>
           ELSE /\ IF DifferenceArea(newgeo, geounit.geom) # 0
                   THEN /\ geounits' = SaveGeometry(geounits, geounit, newgeo, geolevel.tolerance)
                        /\ geo' = geo + 1
                   ELSE UNCHANGED <<geounits, geo>>
                /\ pc' = "nest_data"
                /\ psub' = 1
                /\ ui' = ui
    /\ UNCHANGED <<characteristics, importvars, passes, rlevel, prevlevel, unitq, num,
                   geomods, nummods, handlevars, callvars>>

\* A statistical step that leaves out a subject without rows in the
\* parent-set.
AggregateSaveSkipsNone(chars, unit, subject, aggdata, percentage) ==
    LET mychar == {i \in 1..Len(chars) : chars[i].geounit = unit /\ chars[i].subject = subject}
    IN  IF aggdata.none
        THEN chars
        ELSE IF mychar = {}
             THEN Append(chars, [geounit |-> unit, subject |-> subject,
                                 number |-> aggdata.sum, percentage |-> percentage])
             ELSE [chars EXCEPT ![Min(mychar)] =
                      [@ EXCEPT !.number = aggdata.sum, !.percentage = percentage]]

\* The Characteristic table after the statistical step of aggregate_unit for
\* one subject: a record is created when the unit has none, the first one is
\* updated when the aggregate differs from its number (the text "0.0" that
\* stands for no rows differs from every Decimal).
AggregateSave(chars, unit, subject, aggdata, percentage) ==
    LET mychar == {i \in 1..Len(chars) : chars[i].geounit = unit /\ chars[i].subject = subject}
    IN  IF mychar = {}
        THEN Append(chars, [geounit |-> unit, subject |-> subject,
                            number |-> aggdata.sum, percentage |-> percentage])
        ELSE IF aggdata.none \/ aggdata.sum # chars[Min(mychar)].number
             THEN [chars EXCEPT ![Min(mychar)] =
                      [@ EXCEPT !.number = aggdata.sum, !.percentage = percentage]]
             ELSE chars

\* Whether that step saves a record (num += 1).
AggregateSaves(chars, unit, subject, aggdata) ==
    LET mychar == {i \in 1..Len(chars) : chars[i].geounit = unit /\ chars[i].subject = subject}
    IN  mychar = {} \/ aggdata.none \/ aggdata.sum # chars[Min(mychar)].number

\* aggregate_unit, statistical step for one subject; after the last subject
\* it returns (geo, num) to renest_geolevel, which adds them up.
AggregateSubject ==
    /\ pc = "nest_data"
    /\ LET geounit     == unitq[ui]
           subject     == Subjects[psub]
           parentunits == ParentUnits(geounits, geounit, LastParent(rlevel))
           aggdata     == AggData(characteristics, parentunits, subject.name)
           percentage  == AggPercentage(characteristics, parentunits, subject)
           saves       == AggregateSaves(characteristics, geounit.id, subject.name, aggdata)
           newnum      == IF saves THEN num + 1 ELSE num
       IN  /\ characteristics' =
                  AggregateSave(characteristics, geounit.id, subject.name, aggdata, percentage)
           /\ IF psub < Len(Subjects)
              THEN /\ psub' = psub + 1
                   /\ num' = newnum
                   /\ UNCHANGED <<pc, ui, geomods, nummods>>
              ELSE /\ psub' = 1
                   /\ num' = newnum
                   /\ pc' = "nest_mark"
                   /\ ui' = ui + 1
                   /\ geomods' = geomods + geo
                   /\ nummods' = nummods + newnum
    /\ UNCHANGED <<geounits, importvars, passes, rlevel, prevlevel, unitq, geo, handlevars,
                   callvars>>

\* The unit loop is exhausted: renest_geolevel returns.
FinishRenest ==
    /\ pc = "nest_mark"
    /\ ui > Len(unitq)
    /\ pc' = "idle"
    /\ UNCHANGED <<geounits, characteristics, importvars, renestvars, handlevars,
                   callvars>>

\* ------------------------------------------------- specification: ingestion

\* No renest_geolevel call is running or has run.
RenestIdle ==
    /\ passes = 0
    /\ rlevel = None
    /\ prevlevel = None
    /\ unitq = <<>>
    /\ ui = 1
    /\ psub = 1
    /\ geo = 0
    /\ num = 0
    /\ geomods = 0
    /\ nummods = 0

\* The command is run without the options geolevels and nesting: the loop
\* of handle over the geolevels is not entered.
HandleIdle ==
    /\ geolevels = <<>>
    /\ optlevels = [given |-> FALSE, levels |-> {}]
    /\ nestlevels = [given |-> FALSE, levels |-> {}]
    /\ hlevel = 1
    /\ hpc = "done"

\* No call of get_shape_tree or enforce_multi is followed on its own.
CallsIdle ==
    /\ treecall = [shapefile |-> <<>>, feature |-> <<>>, state |-> "none", builtid |-> <<>>]
    /\ multicall = [geom |-> NoGeom, state |-> "none", result |-> NoGeom]

Init ==
    /\ geounits = <<>>
    /\ characteristics = <<>>
    /\ pc = "idle"
    /\ shapefiles \in {<<lyr>> : lyr \in Sources}
    /\ source = shapefiles[1]
    /\ order \in KeyOrders
    /\ run = 0
    /\ h = 1
    /\ idx = 1
    /\ my_geom = Unbound
    /\ g = 0
    /\ sidx = 1
    /\ snapshot = [geounits |-> <<>>, characteristics |-> <<>>]
    /\ returned = NotReturned
    /\ workers = <<>>
    /\ attributes = NoAttributes
    /\ RenestIdle
    /\ HandleIdle
    /\ CallsIdle

Next ==
    \/ StartImport
    \/ ImportFeature
    \/ SetCharacteristic
    \/ FinishImport

Spec == Init /\ [][Next]_vars

\* ------------------------------ specification: ingestion of several layers

\* Features of the layers: two tree codes, a polygon, an empty polygon and
\* an empty result that is no polygon type, attribute values that parse.
LayerFeatures ==
    { [NAME |-> "A", ID |-> "p", TRACT |-> t, geom |-> gm, WHITE |-> a.WHITE, TOTAL |-> a.TOTAL] :
        t  \in { <<"1", " ">>, <<"2">> },
        gm \in { [type |-> "Polygon",            cells |-> {1, 2}, srid |-> 4326],
                 [type |-> "Polygon",            cells |-> {},     srid |-> 4326],
                 [type |-> "GeometryCollection", cells |-> {},     srid |-> 4326] },
        a  \in { [WHITE |-> Num(16), TOTAL |-> Num(25)],
                 [WHITE |-> Num(20), TOTAL |-> Num(6)] } }

\* config['shapefiles']: the features in one layer, or cut into two layers.
LayerConfigs ==
    LET flat == UNION { [1..n -> LayerFeatures] : n \in 1..MaxFeatures }
    IN  {<<lyr>> : lyr \in flat} \cup
        UNION { {<<SubSeq(lyr, 1, k), SubSeq(lyr, k + 1, Len(lyr))>> :
                    k \in 1..(Len(lyr) - 1)} : lyr \in flat }

InitLayers ==
    /\ geounits = <<>>
    /\ characteristics = <<>>
    /\ pc = "idle"
    /\ shapefiles \in LayerConfigs
    /\ source = shapefiles[1]
    /\ order \in KeyOrders
    /\ run = 0
    /\ h = 1
    /\ idx = 1
    /\ my_geom = Unbound
    /\ g = 0
    /\ sidx = 1
    /\ snapshot = [geounits |-> <<>>, characteristics |-> <<>>]
    /\ returned = NotReturned
    /\ workers = <<>>
    /\ attributes = NoAttributes
    /\ RenestIdle
    /\ HandleIdle
    /\ CallsIdle

NextLayers ==
    \/ StartImport
    \/ ImportFeature
    \/ SetCharacteristic
    \/ NextShapefile
    \/ FinishImport
    \/ Interrupt

SpecLayers == InitLayers /\ [][NextLayers]_vars

\* ------------------------------- specification: ingestion of shaped features

\* One layer of one feature whose geometry is any nonempty set of cells of
\* the grid: a Polygon when the cells are connected (convex, concave or with
\* a hole) and a MultiPolygon otherwise.
InitShapes ==
    LET ShapeGeoms ==
            { [type  |-> IF Component(cells, {Min(cells)}) = cells
                         THEN "Polygon" ELSE "MultiPolygon",
               cells |-> cells,
               srid  |-> 4326] :
                cells \in (SUBSET (1..(GridWidth * GridHeight))) \ {{}} }
        ShapeFeatures ==
            { [NAME |-> "A", ID |-> "p", TRACT |-> <<"2">>, geom |-> gm,
               WHITE |-> Num(16), TOTAL |-> Num(25)] : gm \in ShapeGeoms }
    IN  /\ geounits = <<>>
        /\ characteristics = <<>>
        /\ pc = "idle"
        /\ shapefiles \in { << <<feat>> >> : feat \in ShapeFeatures }
        /\ source = shapefiles[1]
        /\ order = <<"TOTAL", "WHITE">>
        /\ run = 0
        /\ h = 1
        /\ idx = 1
        /\ my_geom = Unbound
        /\ g = 0
        /\ sidx = 1
        /\ snapshot = [geounits |-> <<>>, characteristics |-> <<>>]
        /\ returned = NotReturned
        /\ workers = <<>>
        /\ attributes = NoAttributes
        /\ RenestIdle
        /\ HandleIdle
        /\ CallsIdle

NextShapes ==
    \/ StartImport
    \/ ImportFeature
    \/ SetCharacteristic
    \/ FinishImport

SpecShapes == InitShapes /\ [][NextShapes]_vars

\* ------------------------------------------------- specification: renesting

\* No import_shape run is going on or has gone on.
ImportIdle ==
    /\ shapefiles = <<>>
    /\ source = <<>>
    /\ order = <<"TOTAL", "WHITE">>
    /\ run = 0
    /\ h = 1
    /\ idx = 1
    /\ my_geom = Unbound
    /\ g = 0
    /\ sidx = 1
    /\ snapshot = [geounits |-> <<>>, characteristics |-> <<>>]
    /\ returned = NotReturned
    /\ workers = <<>>
    /\ attributes = NoAttributes

\* The fields of a Geounit that the probe of import_shape filters on.
IdentityOf(unit) == <<unit.name, unit.geolevel, unit.portable_id, unit.tree_code>>

\* A Geounit as import_shape stores it for a feature of the given geolevel.
ImportedUnit(name, level, code, cells) ==
    LET mg == [type |-> "MultiPolygon", cells |-> cells, srid |-> 4326]
    IN  [name        |-> name,
         portable_id |-> name,
         tree_code   |-> code,
         geolevel    |-> level,
         geom        |-> mg,
         simple      |-> SimpleOf(mg, GeolevelNamed(level).tolerance),
         center      |-> CHOOSE center \in CorrectedCentroids(mg) : TRUE,
         child       |-> 0]

\* The Characteristics set_geounit_characteristic stores for a unit from the
\* quantized values total and white.
ImportedChars(unit, row) ==
    << [geounit |-> unit, subject |-> "total", number |-> row.total,
        percentage |-> ZeroPercentage],
       [geounit |-> unit, subject |-> "white", number |-> row.white,
        percentage |-> IF row.total > 0 THEN Ratio(row.white, row.total)
                       ELSE ZeroPercentage] >>

\* The stored geometries county 01 may have before the pass: the union of
\* both tracts, a part of it, a geometry that strictly contains it, and one
\* that is disjoint from it.
PriorGeoms == { {1, 2}, {1}, {1, 2, 4}, {4} }

\* The tracts a store may hold: tracts 0101 and 0102 of county 01 and tract
\* 0201 of county 02.
TractCandidates ==
    << [name |-> "T1", code |-> <<"0", "1", "0", "1">>, cells |-> {1}],
       [name |-> "T2", code |-> <<"0", "1", "0", "2">>, cells |-> {2}],
       [name |-> "T3", code |-> <<"0", "2", "0", "1">>, cells |-> {3}] >>

\* What a store holds of a tract: nothing, the unit without Characteristics,
\* or the unit with the Characteristics of one of three attribute rows.
Absent == [present |-> FALSE, chars |-> FALSE, total |-> 0, white |-> 0]

Bare == [present |-> TRUE, chars |-> FALSE, total |-> 0, white |-> 0]

TractStates ==
    {Absent, Bare} \cup
    { [present |-> TRUE, chars |-> TRUE, total |-> r[1], white |-> r[2]] :
        r \in { <<3, 2>>, <<0, 0>>, <<0, 2>> } }

\* The Characteristics county 01 may have before the pass: none, or those of
\* an attribute row.
PriorChars ==
    { Bare, [present |-> TRUE, chars |-> TRUE, total |-> 3, white |-> 2] }

\* The store after the three geolevels were imported: counties 01 and 02,
\* block 010101 with its Characteristics, and the tracts chosen.
StoreUnits(prior, tracts) ==
    LET RECURSIVE Tracts(_)
        Tracts(k) ==
            IF k > Len(TractCandidates) THEN <<>>
            ELSE (IF tracts[k].present
                  THEN <<ImportedUnit(TractCandidates[k].name, "tract",
                                      TractCandidates[k].code, TractCandidates[k].cells)>>
                  ELSE <<>>) \o Tracts(k + 1)
    IN  << ImportedUnit("P1", "county", <<"0", "1">>, prior),
           ImportedUnit("P2", "county", <<"0", "2">>, {3}),
           ImportedUnit("B1", "block", <<"0", "1", "0", "1", "0", "1">>, {1}) >>
        \o Tracts(1)

StoreChars(units, priorchars, tracts) ==
    LET IdOf(name) == CHOOSE i \in 1..Len(units) : units[i].name = name
        RECURSIVE TractChars(_)
        TractChars(k) ==
            IF k > Len(TractCandidates) THEN <<>>
            ELSE (IF tracts[k].present /\ tracts[k].chars
                  THEN ImportedChars(IdOf(TractCandidates[k].name), tracts[k])
                  ELSE <<>>) \o TractChars(k + 1)
    IN  (IF priorchars.chars THEN ImportedChars(IdOf("P1"), priorchars) ELSE <<>>)
        \o ImportedChars(IdOf("B1"), [total |-> 7, white |-> 7])
        \o TractChars(1)

InitRenest ==
    /\ \E prior \in PriorGeoms, priorchars \in PriorChars,
          tracts \in [1..Len(TractCandidates) -> TractStates] :
          /\ geounits = StoreUnits(prior, tracts)
          /\ characteristics = StoreChars(StoreUnits(prior, tracts), priorchars, tracts)
    /\ pc = "idle"
    /\ ImportIdle
    /\ RenestIdle
    /\ HandleIdle
    /\ CallsIdle

NextRenest ==
    \/ RenestGeolevel
    \/ AggregateMark
    \/ AggregateGeometry
    \/ AggregateSubject
    \/ FinishRenest

SpecRenest == InitRenest /\ [][NextRenest]_vars

\* ------------------------------------------- specification: pure functions

\* Values of a tree field of a feature: shorter than, as long as and longer
\* than the declared widths, with and without spaces around.
TreeValues ==
    { <<"1">>, <<"1", " ">>, <<" ", "1", "2">>, <<"1", "2", "3">>, <<>> }

\* The Fields of a Shapefile element: the tree fields A and B with declared
\* positions and widths, alone or after a name and a portable field.
FieldConfigs ==
    { prefix \o << [name |-> "A", type |-> "tree", pos |-> pa, width |-> wa],
                   [name |-> "B", type |-> "tree", pos |-> pb, width |-> wb] >> :
        prefix \in { <<>>, << [name |-> "NAME", type |-> "name",     pos |-> -1, width |-> 0],
                              [name |-> "ID",   type |-> "portable", pos |-> -1, width |-> 0] >> },
        pa \in 0..MaxPos, pb \in 0..MaxPos, wa \in 1..MaxWidth, wb \in 1..MaxWidth }

\* The calls of get_shape_tree: a configuration whose tree fields have
\* different positions, and a feature.
TreeCalls ==
    { [shapefile |-> c,
       feature   |-> [NAME |-> <<"n">>, ID |-> <<"p">>, A |-> a, B |-> b],
       state     |-> "called",
       builtid   |-> <<>>] :
        c \in {f \in FieldConfigs : f[Len(f) - 1].pos # f[Len(f)].pos},
        a \in TreeValues, b \in TreeValues }

\* The arguments of enforce_multi: None, polygons, multipolygons and
\* geometries of other types, empty or not, in two spatial references.
MultiArgs ==
    {NoGeom} \cup
    { [type |-> tc[1], cells |-> tc[2], srid |-> sr] :
        tc \in { <<"Polygon", {1}>>, <<"Polygon", {1, 2}>>, <<"Polygon", {}>>,
                 <<"MultiPolygon", {1, 3}>>, <<"MultiPolygon", {2}>>, <<"MultiPolygon", {}>>,
                 <<"Point", {1}>>, <<"LineString", {1, 2}>>,
                 <<"GeometryCollection", {1, 3}>>, <<"GeometryCollection", {}>> },
        sr \in {4326, 3785} }

InitFunctions ==
    /\ geounits = <<>>
    /\ characteristics = <<>>
    /\ pc = "idle"
    /\ ImportIdle
    /\ RenestIdle
    /\ HandleIdle
    /\ \/ /\ treecall \in TreeCalls
          /\ multicall = [geom |-> NoGeom, state |-> "none", result |-> NoGeom]
       \/ /\ treecall = [shapefile |-> <<>>, feature |-> <<>>, state |-> "none",
                         builtid |-> <<>>]
          /\ multicall \in {[geom |-> a, state |-> "called", result |-> NoGeom] :
                                a \in MultiArgs}

\* get_shape_tree(shapefile, feature) returns.
GetShapeTree ==
    /\ treecall.state = "called"
    /\ treecall' = [treecall EXCEPT
                       !.state = "returned",
                       !.builtid = get_shape_tree(treecall.shapefile, treecall.feature)]
    /\ UNCHANGED <<geounits, characteristics, pc, importvars, renestvars, handlevars,
                   multicall>>

\* enforce_multi(geom) returns.
EnforceMulti ==
    /\ multicall.state = "called"
    /\ multicall' = [multicall EXCEPT
                        !.state = "returned",
                        !.result = enforce_multi(multicall.geom)]
    /\ UNCHANGED <<geounits, characteristics, pc, importvars, renestvars, handlevars,
                   treecall>>

NextFunctions ==
    \/ GetShapeTree
    \/ EnforceMulti

SpecFunctions == InitFunctions /\ [][NextFunctions]_vars

\* ---------------------------------------------------- specification: handle

\* The features of the shapefile of each geolevel: name, tree code, cells of
\* the geometry and the quantized values total and white.
LevelFeatures ==
    [county |-> << [name |-> "P1", code |-> <<"0", "1">>, cells |-> {1, 2}, total |-> 5, white |-> 3],
                   [name |-> "P2", code |-> <<"0", "2">>, cells |-> {3}, total |-> 4, white |-> 1] >>,
     tract  |-> << [name |-> "T1", code |-> <<"0", "1", "0", "1">>, cells |-> {1}, total |-> 3, white |-> 2],
                   [name |-> "T2", code |-> <<"0", "1", "0", "2">>, cells |-> {2}, total |-> 3, white |-> 1],
                   [name |-> "T3", code |-> <<"0", "2", "0", "1">>, cells |-> {3}, total |-> 4, white |-> 1] >>,
     block  |-> << [name |-> "B1", code |-> <<"0", "1", "0", "1", "0", "1">>, cells |-> {1},
                    total |-> 7, white |-> 7] >>]

\* The store after import_geolevel has run import_shape over feats[k..], the
\* features of the geolevel named level: a unit is saved for a feature whose
\* identity key is not stored, and the Characteristics of the unit are set.
RECURSIVE ImportLevel(_, _, _, _)
ImportLevel(store, level, feats, k) ==
    IF k > Len(feats) THEN store
    ELSE LET new      == ImportedUnit(feats[k].name, level, feats[k].code, feats[k].cells)
             prefetch == {u \in 1..Len(store.geounits) :
                             IdentityOf(store.geounits[u]) = IdentityOf(new)}
             units    == IF prefetch = {} THEN Append(store.geounits, new)
                         ELSE store.geounits
             unit     == IF prefetch = {} THEN Len(units) ELSE Min(prefetch)
             row      == ImportedChars(unit, feats[k])
             chars    == Upsert(Upsert(store.characteristics, unit, row[1].subject,
                                       row[1].number, row[1].percentage),
                                unit, row[2].subject, row[2].number, row[2].percentage)
         IN  ImportLevel([geounits |-> units, characteristics |-> chars], level, feats, k + 1)

\* importme / nestme: the option is given and is empty or holds the index.
LevelSelected(option, index) ==
    option.given /\ (option.levels = {} \/ index \in option.levels)

\* One pass of the loop of handle over the geolevels, first half:
\* import_geolevel for the geolevel when it is selected for import.
HandleImportGeolevel ==
    /\ hpc = "import"
    /\ pc = "idle"
    /\ hlevel <= Len(geolevels)
    /\ IF LevelSelected(optlevels, hlevel - 1)
       THEN LET store == ImportLevel([geounits |-> geounits,
                                      characteristics |-> characteristics],
                                     geolevels[hlevel], LevelFeatures[geolevels[hlevel]], 1)
            IN  /\ geounits' = store.geounits
                /\ characteristics' = store.characteristics
                /\ returned' = ReturnsNone
       ELSE UNCHANGED <<geounits, characteristics, returned>>
    /\ hpc' = "nest"
    /\ UNCHANGED <<pc, shapefiles, source, order, run, h, idx, my_geom, g, sidx,
                   snapshot, workers, attributes, renestvars, geolevels, optlevels,
                   nestlevels, hlevel, callvars>>

\* Second half of the pass: renest_geolevel for the geolevel when it is
\* selected for nesting; the loop goes on when that call has returned.
HandleRenestGeolevel ==
    /\ hpc = "nest"
    /\ IF LevelSelected(nestlevels, hlevel - 1)
       THEN StartRenest(geolevels[hlevel])
       ELSE UNCHANGED <<geounits, characteristics, pc, importvars, renestvars, callvars>>
    /\ hlevel' = hlevel + 1
    /\ hpc' = "import"
    /\ UNCHANGED <<geolevels, optlevels, nestlevels>>

\* The values of the options geolevels and nesting: not given, or a list of
\* indexes into the geolevels of the configuration.
LevelOptions ==
    {[given |-> FALSE, levels |-> {}]} \cup
    {[given |-> TRUE, levels |-> L] : L \in SUBSET (0..(Len(Geolevels) - 1))}

\* The orders of the GeoLevel elements in the configuration: smallest area
\* first, or biggest first.
GeolevelOrders == { <<"block", "tract", "county">>, <<"county", "tract", "block">> }

InitHandle ==
    /\ geounits = <<>>
    /\ characteristics = <<>>
    /\ pc = "idle"
    /\ ImportIdle
    /\ RenestIdle
    /\ geolevels \in GeolevelOrders
    /\ optlevels \in LevelOptions
    /\ nestlevels \in LevelOptions
    /\ hlevel = 1
    /\ hpc = IF optlevels.given \/ nestlevels.given THEN "import" ELSE "done"
    /\ CallsIdle

NextHandle ==
    \/ HandleImportGeolevel
    \/ HandleRenestGeolevel
    \/ AggregateMark
    \/ AggregateGeometry
    \/ AggregateSubject
    \/ FinishRenest

SpecHandle == InitHandle /\ [][NextHandle]_vars

\* ------------------------------ specification: concurrent ingestion workers

\* set_geounit_characteristic for a feature whose attributes parse: the loop
\* over subject_objects from position k on.
RECURSIVE SetCharacteristics(_, _, _, _, _)
SetCharacteristics(chars, unit, feat, ord, k) ==
    IF k > Len(ord) THEN chars
    ELSE SetCharacteristics(
             Upsert(chars, unit, SubjectOf(ord[k]).name,
                    Quantize(feat[ord[k]].value), PercentageOf(feat, ord[k])),
             unit, feat, ord, k + 1)

\* Features of the partitions: two tree codes, a polygon and an empty
\* polygon, attribute values that parse.
WorkerFeatures ==
    { [NAME |-> "A", ID |-> "p", TRACT |-> t, geom |-> gm,
       WHITE |-> Num(16), TOTAL |-> Num(25)] :
        t  \in { <<"1", " ">>, <<"2">> },
        gm \in { [type |-> "Polygon", cells |-> {1, 2}, srid |-> 4326],
                 [type |-> "Polygon", cells |-> {},     srid |-> 4326] } }

\* The partitions of the features of the geolevel: one for each of the two
\* workers.
Partitions == UNION { [1..n -> WorkerFeatures] : n \in 1..MaxFeatures }

\* A worker probes the store for the identity key of its next feature; for
\* a stored unit it goes on to set the Characteristics of that unit.
WorkerProbe ==
    /\ \E w \in DOMAIN workers :
          /\ workers[w].pc = "probe"
          /\ workers[w].idx <= Len(workers[w].source)
          /\ LET feat     == workers[w].source[workers[w].idx]
                 prefetch == Prefetch(geounits, Config.geolevel, feat)
             IN  IF prefetch = {}
                 THEN /\ workers' = [workers EXCEPT ![w].pc = "create"]
                      /\ UNCHANGED characteristics
                 ELSE /\ workers' = [workers EXCEPT ![w].idx = @ + 1]
                      /\ characteristics' =
                             SetCharacteristics(characteristics, Min(prefetch), feat, order, 1)
    /\ UNCHANGED <<geounits, pc, shapefiles, source, order, run, h, idx, my_geom, g,
                   sidx, snapshot, returned, attributes, renestvars, handlevars,
                   callvars>>

\* The worker, having found no unit, normalises the geometry, saves a new
\* Geounit and sets its Characteristics, or skips the feature when the
\* geometry raises.
WorkerCreate ==
    /\ \E w \in DOMAIN workers :
          /\ workers[w].pc = "create"
          /\ LET feat == workers[w].source[workers[w].idx]
                 mg   == CoerceMyGeom(feat.geom, workers[w].my_geom)
             IN  /\ workers' = [workers EXCEPT ![w] =
                                   [@ EXCEPT !.pc = "probe", !.idx = @ + 1, !.my_geom = mg]]
                 /\ IF GeometryRaises(mg)
                    THEN UNCHANGED <<geounits, characteristics>>
                    ELSE /\ \E center \in CorrectedCentroids(mg) :
                                geounits' = Append(geounits, NewGeounit(feat, mg, center))
                         /\ characteristics' =
                                SetCharacteristics(characteristics, Len(geounits) + 1,
                                                   feat, order, 1)
    /\ UNCHANGED <<pc, shapefiles, source, order, run, h, idx, my_geom, g, sidx,
                   snapshot, returned, attributes, renestvars, handlevars, callvars>>

\* The feature loop of a worker is exhausted: its import_shape returns.
WorkerFinish ==
    /\ \E w \in DOMAIN workers :
          /\ workers[w].pc = "probe"
          /\ workers[w].idx > Len(workers[w].source)
          /\ workers' = [workers EXCEPT ![w].pc = "done"]
    /\ UNCHANGED <<geounits, characteristics, pc, shapefiles, source, order, run, h,
                   idx, my_geom, g, sidx, snapshot, returned, attributes, renestvars,
                   handlevars, callvars>>

InitWorkers ==
    /\ geounits = <<>>
    /\ characteristics = <<>>
    /\ pc = "idle"
    /\ shapefiles = <<>>
    /\ source = <<>>
    /\ order = <<"TOTAL", "WHITE">>
    /\ run = 0
    /\ h = 1
    /\ idx = 1
    /\ my_geom = Unbound
    /\ g = 0
    /\ sidx = 1
    /\ snapshot = [geounits |-> <<>>, characteristics |-> <<>>]
    /\ returned = NotReturned
    /\ attributes = NoAttributes
    /\ workers \in { <<[pc |-> "probe", source |-> p1, idx |-> 1, my_geom |-> Unbound],
                       [pc |-> "probe", source |-> p2, idx |-> 1, my_geom |-> Unbound]>> :
                       p1 \in Partitions, p2 \in Partitions }
    /\ RenestIdle
    /\ HandleIdle
    /\ CallsIdle

NextWorkers ==
    \/ WorkerProbe
    \/ WorkerCreate
    \/ WorkerFinish

SpecWorkers == InitWorkers /\ [][NextWorkers]_vars

\* --------------------- specification: ingestion with attribute layers

\* Features of the shapefile of the geolevel: two tree codes, a polygon and
\* an empty polygon.
GeographyFeatures ==
    { [NAME |-> "A", ID |-> "p", TRACT |-> t, geom |-> gm,
       WHITE |-> Num(16), TOTAL |-> Num(25)] :
        t  \in { <<"1", " ">>, <<"2">> },
        gm \in { [type |-> "Polygon", cells |-> {1, 2}, srid |-> 4326],
                 [type |-> "Polygon", cells |-> {},     srid |-> 4326] } }

\* Features of the attribute layers: a tree code and the attribute values.
AttributeFeatures ==
    { [NAME |-> "A", ID |-> "p", TRACT |-> t, WHITE |-> Num(20), TOTAL |-> Num(60)] :
        t \in { <<"1", " ">>, <<"2">> } }

\* config['attributes'] of a geolevel with Files elements: no, one or two
\* attribute layers, each with no feature or with one.
AttributeConfigs ==
    LET layers == {<<>>} \cup {<<feat>> : feat \in AttributeFeatures}
    IN  { [given |-> TRUE, layers |-> l] :
            l \in {<<>>} \cup {<<a>> : a \in layers}
                  \cup {<<a, b>> : a \in layers, b \in layers} }

InitAttributes ==
    /\ geounits = <<>>
    /\ characteristics = <<>>
    /\ pc = "idle"
    /\ shapefiles \in { <<lyr>> : lyr \in UNION { [1..n -> GeographyFeatures] :
                                                   n \in 1..MaxFeatures } }
    /\ source = shapefiles[1]
    /\ order = <<"TOTAL", "WHITE">>
    /\ run = 0
    /\ h = 1
    /\ idx = 1
    /\ my_geom = Unbound
    /\ g = 0
    /\ sidx = 1
    /\ snapshot = [geounits |-> <<>>, characteristics |-> <<>>]
    /\ returned = NotReturned
    /\ workers = <<>>
    /\ attributes \in AttributeConfigs
    /\ RenestIdle
    /\ HandleIdle
    /\ CallsIdle

NextAttributes ==
    \/ StartImport
    \/ ImportFeature
    \/ StartAttributes
    \/ AttributeFeature
    \/ NextAttributeLayer
    \/ FinishAttributes

SpecAttributes == InitAttributes /\ [][NextAttributes]_vars

\* ------------------------- specification: sequences of import and renesting

\* import_geolevel is called for a geolevel and runs import_shape over the
\* shapefile of that geolevel.
ImportGeolevel ==
    /\ pc = "idle"
    /\ run < MaxImports
    /\ \E l \in 1..Len(Geolevels) :
          LET store == ImportLevel([geounits |-> geounits,
                                    characteristics |-> characteristics],
                                   Geolevels[l].name, LevelFeatures[Geolevels[l].name], 1)
          IN  /\ geounits' = store.geounits
              /\ characteristics' = store.characteristics
    /\ run' = run + 1
    /\ returned' = ReturnsNone
    /\ UNCHANGED <<pc, shapefiles, source, order, h, idx, my_geom, g, sidx, snapshot,
                   workers, attributes, renestvars, handlevars, callvars>>

InitStore ==
    /\ geounits = <<>>
    /\ characteristics = <<>>
    /\ pc = "idle"
    /\ ImportIdle
    /\ RenestIdle
    /\ HandleIdle
    /\ CallsIdle

NextStore ==
    \/ ImportGeolevel
    \/ RenestGeolevel
    \/ AggregateMark
    \/ AggregateGeometry
    \/ AggregateSubject
    \/ FinishRenest

SpecStore == InitStore /\ [][NextStore]_vars

\* ------------------------------------------------------- claims: ingestion

IdentityKey(u) == <<u.name, u.geolevel, u.portable_id, u.tree_code>>

\* A raw value (a number of 1/100000) truncated toward zero to 4 fractional
\* digits (a number of 1/10000).
QuantizeRoundDown(raw) ==
    IF raw < 0 THEN -(Abs(raw) \div 10) ELSE raw \div 10

\* The first Characteristic stored for (unit, subject).
CharOf(unit, subject) ==
    characteristics[Min({i \in 1..Len(characteristics) :
        characteristics[i].geounit = unit /\ characteristics[i].subject = subject})]

\* The attributes that set_geounit_characteristic has saved for the feature
\* of the running pass of the feature loop.
SavedAttrs == IF pc = "chars" THEN {order[k] : k \in 1..(sidx - 1)} ELSE {}

\* C1: after any sequence of import_shape runs, over sources that may repeat
\* an identity key, no two stored Geounits share (name, geolevel,
\* portable_id, tree_code).
C1_NoDuplicateIdentityKey ==
    \A i, j \in 1..Len(geounits) :
        i # j => IdentityKey(geounits[i]) # IdentityKey(geounits[j])

\* A second run has ended over a source whose two features carry the same
\* identity key under different raw field values, with the unit stored.
C1_Witness ==
    /\ run = 2
    /\ pc = "idle"
    /\ \E i, j \in 1..Len(source) :
          /\ i < j
          /\ source[i].TRACT # source[j].TRACT
          /\ get_shape_tree(ShapeFields, source[i]) = get_shape_tree(ShapeFields, source[j])
          /\ \E u \in 1..Len(geounits) :
                geounits[u].tree_code = get_shape_tree(ShapeFields, source[i])

\* C2: running import_shape twice over the same source and configuration
\* leaves the store after the second run equal to the store after the first
\* run.
C2_SecondRunLeavesStoreEqual ==
    (run = 2 /\ pc \in {"idle", "raised"}) =>
        [geounits |-> geounits, characteristics |-> characteristics] = snapshot

\* C8: the number stored by set_geounit_characteristic is the attribute
\* value truncated toward zero to 4 fractional digits.
C8_NumberIsTruncated ==
    \A attr \in SavedAttrs :
        CharOf(g, SubjectOf(attr).name).number = QuantizeRoundDown(source[idx][attr].value)

\* C9: with N and D the truncated numerator and denominator values, the
\* stored percentage is N/D when the subject has a denominator and D > 0,
\* and the zero sentinel otherwise.
C9_PercentageLaw ==
    \A attr \in SavedAttrs :
        LET obj == SubjectOf(attr)
            N   == QuantizeRoundDown(source[idx][attr].value)
            D   == QuantizeRoundDown(source[idx][FieldById(obj.percentage_denominator)].value)
        IN  CharOf(g, obj.name).percentage =
                IF obj.percentage_denominator # None /\ D > 0
                THEN Ratio(N, D)
                ELSE ZeroPercentage

\* C10: an attribute value that is no number is stored as number zero and
\* does not abort the run: import_shape goes on with the remaining subjects
\* and features.
C10_UnparsableStoredAsZero ==
    /\ ~(pc = "raised" /\ CharacteristicRaises(source[idx], order[sidx]))
    /\ \A attr \in SavedAttrs :
          ~source[idx][attr].parsable => CharOf(g, SubjectOf(attr).name).number = 0

\* The identity key import_shape derives for a feature.
FeatureKey(feat) ==
    <<get_shape_name(ShapeFields, feat), Config.geolevel,
      get_shape_portable(ShapeFields, feat), get_shape_tree(ShapeFields, feat)>>

\* The feature loop is about to handle a feature with no stored unit whose
\* geometry makes the try block raise.
AtFailingFeature ==
    /\ pc = "feature"
    /\ idx <= Len(source)
    /\ Prefetch(geounits, Config.geolevel, source[idx]) = {}
    /\ GeometryRaises(CoerceMyGeom(source[idx].geom, my_geom))

\* C11: when normalizing or persisting the geometry of a new feature raises,
\* import_shape creates no Geounit and no Characteristic for the feature and
\* goes on with the next feature of the layer; and a run that is not
\* interrupted ends with a unit stored for every feature, of every layer,
\* whose own geometry is a nonempty polygon or multipolygon, whatever failed
\* before it.
C11_GeometryFailureSkipsFeature ==
    /\ [][(AtFailingFeature /\ ImportFeature) =>
              /\ geounits' = geounits
              /\ characteristics' = characteristics
              /\ pc' = "feature"
              /\ h' = h
              /\ idx' = idx + 1]_vars
    /\ []((pc = "idle" /\ run = 1) =>
              \A k \in 1..Len(shapefiles) : \A n \in 1..Len(shapefiles[k]) :
                  (/\ shapefiles[k][n].geom.type \in {"Polygon", "MultiPolygon"}
                   /\ shapefiles[k][n].geom.cells # {}) =>
                      \E u \in 1..Len(geounits) :
                          IdentityKey(geounits[u]) = FeatureKey(shapefiles[k][n]))

\* A run has ended over two layers: the only feature of the first has an
\* empty polygon and got no unit and no Characteristic, the feature of the
\* second got its unit and its Characteristics.
C11_Witness ==
    /\ pc = "idle"
    /\ run = 1
    /\ Len(shapefiles) = 2
    /\ shapefiles[1][1].geom.cells = {}
    /\ FeatureKey(shapefiles[1][1]) # FeatureKey(shapefiles[2][1])
    /\ Len(geounits) = 1
    /\ IdentityKey(geounits[1]) = FeatureKey(shapefiles[2][1])
    /\ Len(characteristics) = Cardinality(AttrKeys)
    /\ \A c \in 1..Len(characteristics) : characteristics[c].geounit = 1

\* The features of all layers, in the order import_shape reads them.
RECURSIVE Flatten(_)
Flatten(layers) == IF layers = <<>> THEN <<>> ELSE Head(layers) \o Flatten(Tail(layers))

\* The Characteristic table after set_geounit_characteristic has gone
\* through the attributes ord[k..] of feat for unit, and whether it raised.
RECURSIVE RunCharacteristics(_, _, _, _, _)
RunCharacteristics(chars, unit, feat, ord, k) ==
    IF k > Len(ord) THEN [characteristics |-> chars, raised |-> FALSE]
    ELSE IF CharacteristicRaises(feat, ord[k])
         THEN [characteristics |-> chars, raised |-> TRUE]
         ELSE RunCharacteristics(
                  Upsert(chars, unit, SubjectOf(ord[k]).name,
                         Quantize(feat[ord[k]].value), PercentageOf(feat, ord[k])),
                  unit, feat, ord, k + 1)

\* The store that one run of import_shape that nothing interrupts leaves,
\* from the store (units, chars) and the local my_geom = mg, over feats.
RECURSIVE RunFeatures(_, _, _, _, _)
RunFeatures(units, chars, mg, feats, ord) ==
    IF feats = <<>> THEN [geounits |-> units, characteristics |-> chars]
    ELSE LET feat     == Head(feats)
             prefetch == Prefetch(units, Config.geolevel, feat)
             coerced  == IF prefetch = {} THEN CoerceMyGeom(feat.geom, mg) ELSE mg
         IN  IF prefetch = {} /\ GeometryRaises(coerced)
             THEN RunFeatures(units, chars, coerced, Tail(feats), ord)
             ELSE LET saved == IF prefetch = {}
                               THEN Append(units, NewGeounit(feat, coerced,
                                        CHOOSE center \in CorrectedCentroids(coerced) : TRUE))
                               ELSE units
                      unit  == IF prefetch = {} THEN Len(units) + 1 ELSE Min(prefetch)
                      after == RunCharacteristics(chars, unit, feat, ord, 1)
                  IN  IF after.raised
                      THEN [geounits |-> saved, characteristics |-> after.characteristics]
                      ELSE RunFeatures(saved, after.characteristics, coerced,
                                       Tail(feats), ord)

\* C12: when import_shape is interrupted between two store writes and then
\* run again from the start over the same source, the store after that run
\* equals the store that one uninterrupted run over the source produces
\* from the empty store.
C12_ResumedRunEqualsUninterrupted ==
    (pc = "idle" /\ run >= 2) =>
        [geounits |-> geounits, characteristics |-> characteristics] =
            RunFeatures(<<>>, <<>>, Unbound, Flatten(shapefiles), order)

\* C20: when the repaired geometry of a new feature is neither a Polygon
\* nor a MultiPolygon, the coercion of import_shape yields an empty
\* GeometryCollection with the SRID of the input as my_geom, and does not
\* raise.
C20_NonPolygonCoercedToEmptyCollection ==
    [][(/\ pc = "feature"
        /\ idx <= Len(source)
        /\ Prefetch(geounits, Config.geolevel, source[idx]) = {}
        /\ source[idx].geom.type \notin {"Polygon", "MultiPolygon"}
        /\ ImportFeature) =>
           my_geom' = [type  |-> "GeometryCollection",
                       cells |-> {},
                       srid  |-> source[idx].geom.srid]]_vars

\* ---------------------------------------------------------- claims: handle

\* import_geolevel has returned for the j-th geolevel of the configuration
\* (or was not called because the geolevel is not selected for import).
ImportFinished(j) == j < hlevel \/ (j = hlevel /\ hpc = "nest")

\* C13: in a run of the command that selects geolevels for import and for
\* nesting, while renest_geolevel works on a geolevel, import_geolevel has
\* finished for every geolevel selected for import.
C13_RenestAfterAllImports ==
    pc \in {"nest_mark", "nest_geom", "nest_data"} =>
        \A j \in 1..Len(geolevels) :
            LevelSelected(optlevels, j - 1) => ImportFinished(j)

\* ------------------------------------------------------- claims: renesting

\* p is a string prefix of code.
IsPrefix(p, code) == \E n \in 0..Len(code) : p = [k \in 1..n |-> code[k]]

\* The geolevel next below each geolevel of the hierarchy county > tract >
\* block.
AdjacentChildLevel == [county |-> "tract", tract |-> "block", block |-> None]

\* The parent-set of a unit: the units of the adjacent child geolevel whose
\* tree code has the unit's tree code as a prefix.
ChildSet(u) ==
    {i \in 1..Len(geounits) :
        /\ geounits[i].geolevel = AdjacentChildLevel[u.geolevel]
        /\ IsPrefix(u.tree_code, geounits[i].tree_code)}

\* The Characteristics of the parent-set of u for a subject.
ChildChars(u, subject) ==
    {i \in 1..Len(characteristics) :
        /\ characteristics[i].geounit \in ChildSet(u)
        /\ characteristics[i].subject = subject}

RECURSIVE TotalOf(_)
TotalOf(rows) ==
    IF rows = {} THEN 0
    ELSE LET i == CHOOSE r \in rows : TRUE
         IN  characteristics[i].number + TotalOf(rows \ {i})

HasChar(unit, subject) ==
    \E i \in 1..Len(characteristics) :
        characteristics[i].geounit = unit /\ characteristics[i].subject = subject

\* How far aggregate_unit has got with the k-th unit of the running or last
\* pass: its first write, its geometric step, its step for the j-th subject.
MarkDone(k) == k < ui \/ (k = ui /\ pc \in {"nest_geom", "nest_data"})

GeometryDone(k) == k < ui \/ (k = ui /\ pc = "nest_data")

SubjectDone(k, j) == k < ui \/ (k = ui /\ pc = "nest_data" /\ j < psub)

\* C3: after aggregate_unit has run on a unit with a nonempty parent-set,
\* for every subject the number of the unit's Characteristic is the exact
\* sum of the numbers of the parent-set's Characteristics for it.
C3_SumLaw ==
    \A k \in 1..Len(unitq), j \in 1..Len(Subjects) :
        (SubjectDone(k, j) /\ ChildSet(unitq[k]) # {}) =>
            /\ HasChar(unitq[k].id, Subjects[j].name)
            /\ CharOf(unitq[k].id, Subjects[j].name).number =
                   TotalOf(ChildChars(unitq[k], Subjects[j].name))

\* aggregate_unit has replaced the different number of a unit by the sum
\* over two parent-set units that both have a Characteristic of the subject.
C3_Witness ==
    \E k \in 1..Len(unitq), j \in 1..Len(Subjects) :
        /\ SubjectDone(k, j)
        /\ Cardinality(ChildSet(unitq[k])) = 2
        /\ Cardinality(ChildChars(unitq[k], Subjects[j].name)) = 2
        /\ TotalOf(ChildChars(unitq[k], Subjects[j].name)) = 6
        /\ CharOf(unitq[k].id, Subjects[j].name).number = 6

\* C4: the parent-set aggregate_unit works on (the units it points at the
\* unit with update(child=geounit)) is exactly the set of units of the
\* adjacent child geolevel whose tree code has the unit's tree code as a
\* prefix.
C4_ParentSetIsPrefixSet ==
    \A k \in 1..Len(unitq) :
        MarkDone(k) =>
            {i \in 1..Len(geounits) : geounits[i].child = unitq[k].id} = ChildSet(unitq[k])

\* aggregate_unit has marked a parent-set of two tracts of a county while
\* the store holds a tract of another county and a block under the county.
C4_Witness ==
    \E k \in 1..Len(unitq) :
        /\ MarkDone(k)
        /\ unitq[k].geolevel = "county"
        /\ Cardinality({i \in 1..Len(geounits) : geounits[i].child = unitq[k].id}) = 2
        /\ \E i \in 1..Len(geounits) :
              /\ geounits[i].geolevel = "tract"
              /\ ~IsPrefix(unitq[k].tree_code, geounits[i].tree_code)
        /\ \E i \in 1..Len(geounits) :
              /\ geounits[i].geolevel = "block"
              /\ IsPrefix(unitq[k].tree_code, geounits[i].tree_code)

\* C5: after a renest_geolevel pass every unit of the level that has a
\* nonempty parent-set has a geometry equal to the union of the geometries
\* of its parent-set, whatever its geometry was before.
C5_GeometryIsUnion ==
    (pc = "idle" /\ rlevel # None) =>
        \A k \in 1..Len(unitq) :
            ChildSet(unitq[k]) # {} =>
                geounits[unitq[k].id].geom.cells =
                    UNION {geounits[i].geom.cells : i \in ChildSet(unitq[k])}

\* C6: in every state of renesting, between any two writes to the store,
\* the simplified geometry of every Geounit is the simplification (at the
\* tolerance of its geolevel) of its stored geometry: no unit has a new
\* geometry with the simplified geometry of the old one.
C6_GeometryPairInSync ==
    \A i \in 1..Len(geounits) :
        geounits[i].simple =
            MultiPolygon(Simplify(geounits[i].geom,
                                  GeolevelNamed(geounits[i].geolevel).tolerance))

\* aggregate_unit has replaced the geometry of a unit, and with it the
\* simplified geometry, and has not yet written a Characteristic for it.
C6_Witness ==
    /\ pc = "nest_data"
    /\ psub = 1
    /\ geounits[unitq[ui].id].geom # unitq[ui].geom
    /\ geounits[unitq[ui].id].simple # unitq[ui].simple

\* C7: after aggregate_unit has run on a unit with a nonempty parent-set,
\* for every subject with a percentage denominator the percentage is the
\* parent-set's sum for the subject divided by its sum for the denominator
\* when that sum is greater than 0, and the zero sentinel otherwise.
C7_AggregatePercentageLaw ==
    \A k \in 1..Len(unitq), j \in 1..Len(Subjects) :
        (/\ SubjectDone(k, j)
         /\ ChildSet(unitq[k]) # {}
         /\ Subjects[j].percentage_denominator # None) =>
            LET sumS == TotalOf(ChildChars(unitq[k], Subjects[j].name))
                sumD == TotalOf(ChildChars(unitq[k], Subjects[j].percentage_denominator))
            IN  /\ HasChar(unitq[k].id, Subjects[j].name)
                /\ CharOf(unitq[k].id, Subjects[j].name).percentage =
                       IF sumD > 0 THEN Ratio(sumS, sumD) ELSE ZeroPercentage

\* C14: when the parent-set of a unit is empty, aggregate_unit changes no
\* Geounit (so neither the geometry nor the simplified geometry of the
\* unit) and no Characteristic, creates none, and returns (0, 0): the
\* counters of renest_geolevel stay as they are and the loop goes on.
C14_EmptyParentSetIsSkipped ==
    [][(/\ pc \in {"nest_mark", "nest_geom"}
        /\ ui <= Len(unitq)
        /\ ChildSet(unitq[ui]) = {}) =>
           /\ geounits' = geounits
           /\ characteristics' = characteristics
           /\ (pc = "nest_geom" =>
                  /\ geo = 0
                  /\ num = 0
                  /\ geomods' = geomods
                  /\ nummods' = nummods
                  /\ pc' = "nest_mark"
                  /\ ui' = ui + 1)]_vars

\* aggregate_unit has returned for county 01, which has Characteristics and
\* no tract below it: they are as they were, and nothing was counted.
C14_Witness ==
    /\ pc = "nest_mark"
    /\ ui = 2
    /\ unitq[1].name = "P1"
    /\ ChildSet(unitq[1]) = {}
    /\ HasChar(unitq[1].id, "total")
    /\ CharOf(unitq[1].id, "total").number = 3
    /\ geounits[unitq[1].id].geom = unitq[1].geom
    /\ geo = 0
    /\ num = 0
    /\ geomods = 0
    /\ nummods = 0

\* The cells covered by the union of the geometries of the parent-set of u.
UnionOfChildSet(u) == UNION {geounits[i].geom.cells : i \in ChildSet(u)}

C16_DataCountIsNumberOfChanges ==
    [][(pc = "nest_data" /\ ChildSet(unitq[ui]) # {}) =>
           LET id      == unitq[ui].id
               subject == Subjects[psub].name
               sum     == TotalOf(ChildChars(unitq[ui], subject))
           IN  num' - num =
                   IF ~HasChar(id, subject) \/ CharOf(id, subject).number # sum
                   THEN 1 ELSE 0]_vars

\* -------------------------------------------------- claims: pure functions

\* The positions in a field configuration of the fields tagged tree.
TreeFieldsOf(shapefile) == {k \in 1..Len(shapefile) : shapefile[k].type = "tree"}

\* The fragments of the fields ks of the configuration, each stripped of
\* spaces and left-padded with zeros to its declared width, concatenated in
\* ascending declared position.
RECURSIVE ConcatByPos(_, _, _)
ConcatByPos(shapefile, feature, ks) ==
    IF ks = {} THEN <<>>
    ELSE LET k == CHOOSE x \in ks : \A y \in ks : shapefile[x].pos <= shapefile[y].pos
         IN  ZFill(Strip(feature[shapefile[k].name]), shapefile[k].width)
             \o ConcatByPos(shapefile, feature, ks \ {k})

RECURSIVE SumOfWidths(_, _)
SumOfWidths(shapefile, ks) ==
    IF ks = {} THEN 0
    ELSE LET k == CHOOSE x \in ks : TRUE
         IN  shapefile[k].width + SumOfWidths(shapefile, ks \ {k})

\* C17: get_shape_tree returns the concatenation of all fields tagged tree
\* in ascending declared position, each fragment stripped and zero-padded to
\* its width; every tree field contributes, whatever its declared position.
C17_TreeIsConcatenationOfAllTreeFields ==
    treecall.state = "returned" =>
        treecall.builtid =
            ConcatByPos(treecall.shapefile, treecall.feature, TreeFieldsOf(treecall.shapefile))

\* C18: every tree code get_shape_tree builds has the length that is the
\* sum of the declared widths of the tree fields, whatever the feature
\* values are; stated here for the configurations whose tree fields all
\* have a position that the loop of get_shape_tree visits.
C18_TreeCodeHasDeclaredLength ==
    (/\ treecall.state = "returned"
     /\ \A k \in TreeFieldsOf(treecall.shapefile) :
            treecall.shapefile[k].pos < Len(treecall.shapefile)) =>
        Len(treecall.builtid) =
            SumOfWidths(treecall.shapefile, TreeFieldsOf(treecall.shapefile))

\* The number of polygons of a geometry: the maximal runs of adjacent cells.
NumPolygons(geom) == Cardinality({k \in geom.cells : (k - 1) \notin geom.cells})

\* C19: enforce_multi returns None for None, a MultiPolygon of the one
\* polygon for a Polygon, the input itself for a MultiPolygon, and an empty
\* GeometryCollection with the SRID of the input for a nonempty geometry of
\* any other type.
C19_EnforceMultiByType ==
    multicall.state = "returned" =>
        LET geom   == multicall.geom
            result == multicall.result
        IN  /\ geom = NoGeom => result = NoGeom
            /\ (geom # NoGeom /\ geom.type = "Polygon") =>
                   /\ result.type = "MultiPolygon"
                   /\ result.cells = geom.cells
                   /\ geom.cells # {} => NumPolygons(result) = 1
            /\ (geom # NoGeom /\ geom.type = "MultiPolygon") => result = geom
            /\ (/\ geom # NoGeom
                /\ geom.type \notin {"Polygon", "MultiPolygon"}
                /\ geom.cells # {}) =>
                   /\ result.type = "GeometryCollection"
                   /\ result.cells = {}
                   /\ result.srid = geom.srid

\* enforce_multi has returned for a nonempty LineString in the spatial
\* reference 3785: the result is an empty GeometryCollection in 3785.
C19_Witness ==
    /\ multicall.state = "returned"
    /\ multicall.geom.type = "LineString"
    /\ multicall.geom.cells # {}
    /\ multicall.geom.srid = 3785
    /\ multicall.result = [type |-> "GeometryCollection", cells |-> {}, srid |-> 3785]

\* C21: every Geounit that import_shape created has a stored centroid that
\* lies within its stored geometry, also when the centroid of the geometry
\* itself does not (a concave polygon, a polygon with a hole) and the stored
\* one is taken from the first polygon of the geometry.
C21_CentroidInsideGeometry ==
    \A i \in 1..Len(geounits) : Within(geounits[i].center, geounits[i].geom)

\* A created unit whose own centroid is outside and whose stored centroid,
\* taken from the first polygon, is inside.
CorrectedCenterInside ==
    \E i \in 1..Len(geounits) :
        /\ ~Within(Centroid(geounits[i].geom), geounits[i].geom)
        /\ Within(geounits[i].center, geounits[i].geom)

\* The L-shaped polygon (0,0) (8,0) (8,6) (6,6) (6,2) (0,2) is stored with
\* the centroid (3,2), a point of its edge from (6,2) to (0,2).
LShapeStoredWithCenterOnEdge ==
    \E i \in 1..Len(geounits) :
        /\ geounits[i].geom.cells = {1, 2, 3, 4, 8, 12}
        /\ Centroid(geounits[i].geom) = [x |-> Ratio(5, 1), y |-> Ratio(2, 1)]
        /\ geounits[i].center = [x |-> Ratio(3, 1), y |-> Ratio(2, 1)]
        /\ ~Within(geounits[i].center, geounits[i].geom)

\* C22: after any sequence of import_shape and renest_geolevel runs, the
\* Characteristic table holds at most one record for a pair of a Geounit and
\* a Subject.
C22_OneCharacteristicPerUnitAndSubject ==
    \A i, j \in 1..Len(characteristics) :
        (/\ characteristics[i].geounit = characteristics[j].geounit
         /\ characteristics[i].subject = characteristics[j].subject) => i = j

\* A unit whose Characteristics were imported twice and aggregated from its
\* parent-set in between or after.
C22_Witness ==
    /\ pc = "idle"
    /\ run >= 2
    /\ passes >= 1
    /\ \E u, t \in 1..Len(geounits) :
          /\ geounits[u].geolevel = "county"
          /\ geounits[t].child = u
          /\ \A s \in 1..Len(Subjects) : HasChar(u, Subjects[s].name)

\* C23: no step of import_shape or renest_geolevel deletes a Geounit: every
\* stored unit stays, with its identity key; and no step of import_shape
\* changes the geometry, the simplified geometry or the centroid of a stored
\* unit, so a unit that the probe finds for a feature is reused as it is,
\* also when the geometry of the feature differs.
C23_StoredUnitsAreKept ==
    [][ /\ Len(geounits') >= Len(geounits)
        /\ \A i \in 1..Len(geounits) :
              /\ IdentityOf(geounits'[i]) = IdentityOf(geounits[i])
              /\ pc \notin {"nest_mark", "nest_geom", "nest_data"} =>
                    /\ geounits'[i].geom = geounits[i].geom
                    /\ geounits'[i].simple = geounits[i].simple
                    /\ geounits'[i].center = geounits[i].center ]_vars

\* import_shape has reused a stored unit for a feature with a polygon whose
\* coerced geometry is not the stored one.
C23_Witness ==
    /\ pc = "chars"
    /\ source[idx].geom.type \in {"Polygon", "MultiPolygon"}
    /\ source[idx].geom.cells # {}
    /\ IdentityOf(geounits[g]) =
           <<get_shape_name(ShapeFields, source[idx]), Config.geolevel,
             get_shape_portable(ShapeFields, source[idx]),
             get_shape_tree(ShapeFields, source[idx])>>
    /\ geounits[g].geom # MultiPolygon(source[idx].geom)

\* C24: a run of import_shape that ends surfaces the counters created,
\* skipped and failed, and their sum is the number of features it processed.
C24_RunEndsWithCounters ==
    (pc = "idle" /\ run >= 1) =>
        /\ returned.value = "counters"
        /\ returned.created + returned.skipped + returned.failed =
               Len(Flatten(shapefiles))

\* C25: when two ingestion workers run import_shape at the same time over
\* partitions that hold the same identity key, and the probe and the create
\* are separate store operations, the store never holds two Geounits with the
\* same identity key.
C25_NoDuplicateUnderConcurrentWorkers ==
    workers # <<>> =>
        \A i, j \in 1..Len(geounits) :
            IdentityOf(geounits[i]) = IdentityOf(geounits[j]) => i = j

\* Both workers have ended, each has created a unit for the same identity
\* key, and the store holds both.
BothWorkersCreatedTheKey ==
    /\ \A w \in DOMAIN workers : workers[w].pc = "done"
    /\ Len(geounits) = 2
    /\ IdentityOf(geounits[1]) = IdentityOf(geounits[2])

\* The parent that the scan of the mappings llevels[k..] of a geolevel ends
\* with: a mapping with a parent replaces what earlier ones gave, a mapping
\* without one is passed over.
RECURSIVE ScanParents(_, _, _)
ScanParents(level, k, parent) ==
    IF k > Len(LegislativeLevels) THEN parent
    ELSE IF LegislativeLevels[k].geolevel = level /\ LegislativeLevels[k].parent # 0
         THEN ScanParents(level, k + 1, LegislativeLevels[k].parent)
         ELSE ScanParents(level, k + 1, parent)

\* C26: renest_geolevel takes as child level the geolevel of the parent of
\* the last LegislativeLevel mapping of the geolevel that has a parent, and
\* aggregate_unit marks units of that level only; when no mapping of the
\* geolevel has a parent, renest_geolevel returns without a call of
\* aggregate_unit and with the store as it was.
C26_ChildLevelIsLastMappedParent ==
    [][ /\ (pc = "idle" /\ passes' = passes + 1) =>
              IF ScanParents(rlevel', 1, 0) = 0
              THEN /\ pc' = "idle"
                   /\ unitq' = <<>>
                   /\ UNCHANGED <<geounits, characteristics>>
              ELSE /\ pc' = "nest_mark"
                   /\ UNCHANGED <<geounits, characteristics>>
        /\ (pc = "nest_mark" /\ pc' = "nest_geom") =>
              \A i \in 1..Len(geounits) :
                  geounits'[i] # geounits[i] =>
                      geounits[i].geolevel =
                          LegislativeLevels[ScanParents(rlevel, 1, 0)].geolevel ]_vars

\* aggregate_unit has marked a tract for a county: the county has a mapping
\* to blocks, a later one to tracts, and a last one without a parent.
C26_Witness ==
    /\ pc = "nest_geom"
    /\ rlevel = "county"
    /\ \E i \in 1..Len(geounits) :
          /\ geounits[i].geolevel = "tract"
          /\ geounits[i].child = unitq[ui].id
    /\ \A i \in 1..Len(geounits) :
          geounits[i].geolevel = "block" => geounits[i].child = 0

\* renest_geolevel has returned for the blocks, which have no mapping with a
\* parent.
RenestWithoutParentReturned ==
    /\ pc = "idle"
    /\ passes >= 1
    /\ rlevel = "block"

\* C27: the geometry and the simplified geometry that import_shape stores
\* for a new Geounit are derived from the geometry of its own feature, never
\* from that of an earlier feature, whatever the type of the geometry is.
C27_UnitStoresGeometryOfItsFeature ==
    [][(pc = "feature" /\ Len(geounits') = Len(geounits) + 1) =>
           LET unit == geounits'[Len(geounits')]
               own  == MultiPolygon(source[idx].geom)
           IN  /\ unit.geom = own
               /\ unit.simple = SimpleOf(own, Config.tolerance)]_vars

\* A unit is stored for a feature whose geometry is an empty collection,
\* with the polygon of the feature before it.
StoredWithGeometryOfEarlierFeature ==
    /\ pc = "chars"
    /\ idx = 2
    /\ g = 2
    /\ source[2].geom.type = "GeometryCollection"
    /\ source[1].geom.cells # {}
    /\ geounits[2].geom = MultiPolygon(source[1].geom)

\* C28: renesting is idempotent: a renest_geolevel call for a geolevel that
\* follows directly on a call for the same geolevel ends with geomods = 0 and
\* nummods = 0.
C28_SecondRenestCountsNothing ==
    (pc = "idle" /\ passes >= 2 /\ prevlevel = rlevel) =>
        (geomods = 0 /\ nummods = 0)

\* The second call for the counties in a row has ended: the store is as the
\* first call left it, and a county whose tracts have no Characteristics is
\* counted as modified.
SecondRenestCountsUnchangedUnit ==
    /\ pc = "idle"
    /\ passes = 2
    /\ prevlevel = "county"
    /\ rlevel = "county"
    /\ geomods = 0
    /\ nummods > 0

\* C29: after aggregate_unit has run on a unit with a nonempty parent-set,
\* the unit has a Characteristic for every subject, and for a subject of
\* which the parent-set has no Characteristic its number is zero and its
\* percentage the zero value '0000.00000000'.
C29_EverySubjectHasACharacteristic ==
    \A k \in 1..Len(unitq), j \in 1..Len(Subjects) :
        (SubjectDone(k, j) /\ ChildSet(unitq[k]) # {}) =>
            /\ HasChar(unitq[k].id, Subjects[j].name)
            /\ ChildChars(unitq[k], Subjects[j].name) = {} =>
                  /\ CharOf(unitq[k].id, Subjects[j].name).number = 0
                  /\ CharOf(unitq[k].id, Subjects[j].name).percentage = ZeroPercentage

\* aggregate_unit has run, in the first call, on a unit with a nonempty
\* parent-set that has no Characteristic of the subject, in a store that
\* holds other Characteristics: the unit has a zero Characteristic of it.
C29_Witness ==
    \E k \in 1..Len(unitq), j \in 1..Len(Subjects) :
        /\ SubjectDone(k, j)
        /\ ChildSet(unitq[k]) # {}
        /\ ChildChars(unitq[k], Subjects[j].name) = {}
        /\ passes = 1
        /\ CharOf(unitq[k].id, Subjects[j].name).number = 0
        /\ Len(characteristics) > 2

\* The attribute features of all attribute layers.
AllAttributeFeatures == Flatten(attributes.layers)

\* Every attribute feature whose tree code is that of a unit of units has
\* its value of each subject field stored in chars for the first such unit.
AttributesUpserted(units, chars) ==
    \A k \in 1..Len(AllAttributeFeatures) :
        LET feat  == AllAttributeFeatures[k]
            found == {i \in 1..Len(units) :
                         units[i].tree_code = get_shape_tree(ShapeFields, feat)}
        IN  found # {} =>
                \A attr \in AttrKeys :
                    \E c \in 1..Len(chars) :
                        /\ chars[c].geounit = Min(found)
                        /\ chars[c].subject = SubjectOf(attr).name
                        /\ chars[c].number = Quantize(feat[attr].value)

\* C30: when the geolevel has separate attribute layers, import_shape writes
\* no Characteristic in its pass over the shapefiles, then goes through the
\* attribute layers to the end, and when it returns every attribute feature
\* whose tree code is the tree_code of a stored unit has its subject values
\* stored for that unit.
C30_AttributePassAssignsValues ==
    [][attributes.given =>
          /\ pc = "feature" => characteristics' = characteristics
          /\ pc = "attrs" => pc' \in {"attrs", "idle"}
          /\ (pc = "attrs" /\ pc' = "idle") =>
                AttributesUpserted(geounits', characteristics')]_vars

\* The attribute pass has ended at an attribute feature with the tree code
\* of a unit that the pass over the shapefile stored: the store holds no
\* Characteristic.
AttributePassRaisedAtStoredUnit ==
    /\ pc = "raised"
    /\ attributes.given
    /\ idx <= Len(source)
    /\ \E i \in 1..Len(geounits) :
          geounits[i].tree_code = get_shape_tree(ShapeFields, source[idx])
    /\ characteristics = <<>>

====
